---- MODULE Spec2Model ----
(***************************************************************************)
(* T2_Linux: the Wi-Fi/Bluetooth hardware watchdog (WiFi-Monitor) and the  *)
(* shared t2 library it drives.                                            *)
(*                                                                         *)
(* One run of the WiFi-Monitor process is modelled: `script` is which of   *)
(* the two WiFi-Monitor.py of the repository runs, `mode` its command-line *)
(* action, `pc` the position of the single thread of control.              *)
(* The environment (kernel module table, modprobe exit codes, sysfs        *)
(* presence of the devices, resolution of the desktop user, the log        *)
(* stream) answers nondeterministically.                                   *)
(*                                                                         *)
(* Time is in seconds.  The program reads its clock (time.time()) only to  *)
(* form differences with the instants it has stored, so the model keeps    *)
(* those differences: lrt_age = time.time() - lrt, n_age = time.time() - n.*)
(* They grow with every sleep of the code and with the wait for the next   *)
(* log line, and saturate (lrt_age at Horizon, n_age at MaxElapsed), the   *)
(* bound standing for "that many seconds or more"; commands themselves     *)
(* take no time.                                                           *)
(***************************************************************************)
EXTENDS Integers, Sequences, FiniteSets, TLC

VARIABLES
    script,    \* the WiFi-Monitor that runs: "0.2.5" (src/src/wifi) | "legacy" (src/wifi)
    mode,      \* argv action of 0.2.5: "exec" | "daemon" | "version"; legacy: "daemon"
    pc,        \* control location of the process
    lrt_age,   \* time.time() - lrt, lrt the global of WiFi-Monitor
    n_age,     \* time.time() - n, n the local of the last _reset_sequence call
    line,      \* loop variable of al_is_watching (last line read)
    loaded,    \* the kernel's loaded-module table (/proc/modules)
    attempt,   \* loop variable of load_module / unload_module (0: not in the loop)
    retries,   \* parameter of the current _verify_connectivity frame
    wifi_ok,   \* local of the current _verify_connectivity frame
    bt_ok,     \* local of the current _verify_connectivity frame
    result,    \* outcome of the last _reset_sequence call: "none" | "True" | "False" | "raised"
    calls,     \* history: module operations called for the current trigger
    rets,      \* history: return values of the module operations of the two main stages
    seen,      \* history: <<wifi_ok, bt_ok>> of each verification pass of the current trigger
    notes,     \* history: notifications sent for the current trigger
    invocation, \* which run of the script this process is, counted from 1
    prev_result, \* `result` at the end of the previous run ("none": no previous run)
    grant_age,  \* watcher: seconds since the unload stage of its last granted recovery began
    queued,     \* watcher: the line read was written to the pipe while a recovery was running
    stream_error, \* watcher: the error raised by Popen or by the read of p.stdout, "none" if none
    svc,       \* the current call of a service operation of t2: its arguments, and what it did
    failure_log, \* history: what the "Verification failed" log lines of the current trigger name
    gated,     \* the process has evaluated its cooldown gate at least once
    tries,     \* suspendfix: the (status, still listed) of each attempt of the current module step, and what the step returned
    \* the idle manager (src/src/idle/idle-manager.py, src/idle/idle-manager.py)
    on_ac,            \* global on_ac / IdleManager.on_ac
    audio_playing,    \* global audio_playing
    inhibited,        \* global inhibited
    timeout_process,  \* global timeout_process: 0 (None) or the number of the Popen object
    alive,            \* the processes started with Popen that have not ended
    spawned,          \* number of Popen calls made by update_timeouts
    argv,             \* the arguments the last swayidle was started with
    state_file,       \* content of state.json, state_absent when the file does not exist
    session,          \* power profile, backlight levels and maxima of the desktop session
    before,           \* the session before the first enter_idle/dim_screen since the last exit_idle
    handler,          \* the flag check that ran last and what it observed
    \* the brightness tools (src/src/common/brightness_common.py)
    input_str,        \* argument of apply_brightness_percentage / apply_brightness_stepped
    max_value,        \* content of max_brightness
    outcome           \* what the last apply_brightness_* call did

hardware_vars == <<script, mode, pc, lrt_age, n_age, line, loaded, attempt, retries, wifi_ok,
                   bt_ok, result, calls, rets, seen, notes, invocation, prev_result, grant_age,
                   queued, stream_error, svc, failure_log, tries, gated>>

idle_vars == <<on_ac, audio_playing, inhibited, timeout_process, alive, spawned, argv,
               state_file, session, before, handler>>

brightness_vars == <<input_str, max_value, outcome>>

vars == <<hardware_vars, idle_vars, brightness_vars>>

(***************************************************************************)
(* Bounds of the model.                                                    *)
(***************************************************************************)
\* lrt_age is counted up to Horizon seconds; Horizon stands for any longer time.
Horizon == 30
\* n_age is counted up to MaxElapsed seconds; MaxElapsed stands for any longer time.
MaxElapsed == 12
\* the operator runs the script at most MaxInvocations times, one run after the other
MaxInvocations == 2

\* longest argument handed to the brightness tools
MaxLen == 3
\* update_timeouts starts at most MaxSpawns processes
MaxSpawns == 2

(***************************************************************************)
(* Program constants.                                                      *)
(***************************************************************************)
cd_sec == 20
\* delay=3 of _unload_wifi/_load_wifi/_unload_bt/_load_bt
delay == 3
\* time.sleep(1) between two attempts of a module operation
backoff == 1
\* range(1, 4): the last attempt of a module operation
max_attempt == 3
\* time.sleep(5) after the unload stage and after the load stage
settle == 5
\* time.sleep(2) before the next verification pass
verify_sleep == 2
\* _verify_connectivity(retries=3)
verify_retries == 3

WIFI == "brcmfmac_wcc"
BT == "hci_bcm4377"
Modules == {WIFI, BT}

\* the registry of the legacy script
services == <<"NetworkManager", "bluetooth">>
modules == <<"brcmfmac", "hci_bcm4377">>
cd_time == 30

\* reversed(seq)
reversed(seq) == [i \in 1..Len(seq) |-> seq[Len(seq) + 1 - i]]

(***************************************************************************)
(* Log lines and the signature patterns p_list.  A line is a sequence of   *)
(* fragments; re.search of a pattern is decided on the case-folded         *)
(* fragments.                                                              *)
(***************************************************************************)
Lines ==
    { <<"link becomes ready">>,
      <<"(5)", "error", "CMD_TRIGGER_SCAN">>,
      <<"CMD_TRIGGER_SCAN", "failed with error -110", "(5)">>,
      <<"SET WPA_AUTH FAILED">>,
      <<"failed with error -110">> }

\* str.lower() as applied by re.IGNORECASE, on the fragments that occur
lower(frag) ==
    CASE frag = "CMD_TRIGGER_SCAN" -> "cmd_trigger_scan"
      [] frag = "SET WPA_AUTH FAILED" -> "set wpa_auth failed"
      [] OTHER -> frag

\* the literal pieces of the patterns that a (case-folded) fragment contains
contains(frag, piece) ==
    LET f == lower(frag) IN
    CASE piece = "cmd_trigger_scan" -> f = "cmd_trigger_scan"
      [] piece = "error" -> f \in {"error", "error (-12)", "failed with error -110"}
      [] piece = "(5)" -> f = "(5)"
      [] piece = "brcmf_msgbuf_query_dcmd" -> f = "brcmf_msgbuf_query_dcmd"
      [] piece = "set wpa_auth failed" -> f = "set wpa_auth failed"
      [] piece = "error (-12)" -> f = "error (-12)"
      [] piece = "failed with error -110" -> f = "failed with error -110"
      [] OTHER -> FALSE

\* p_list[i] as the pieces that must occur in this order (".*" between them)
p_list ==
    << <<"cmd_trigger_scan", "error", "(5)">>,
       <<"brcmf_msgbuf_query_dcmd">>,
       <<"set wpa_auth failed">>,
       <<"error (-12)">>,
       <<"failed with error -110">> >>

\* search_from with the order of the pieces ignored
search_any_order(pieces, l, from) ==
    \A k \in 1..Len(pieces) : \E i \in from..Len(l) : contains(l[i], pieces[k])

\* pattern.search(line): the pieces occur in order, in distinct fragments
RECURSIVE search_from(_, _, _)
search_from(pieces, l, from) ==
    IF pieces = <<>> THEN TRUE
    ELSE \E i \in from..Len(l) :
            /\ contains(l[i], Head(pieces))
            /\ search_from(Tail(pieces), l, i + 1)

search(pattern, l) == search_from(pattern, l, 1)

\* the legacy script's patterns: p_list without its last entry
patterns == SubSeq(p_list, 1, 4)

\* `for pattern in compiled: if pattern.search(line): ... break`: the index
\* of the first pattern that matches the line, 0 if none does
first_match(compiled, l) ==
    IF \E i \in 1..Len(compiled) : search(compiled[i], l)
    THEN CHOOSE i \in 1..Len(compiled) :
            /\ search(compiled[i], l)
            /\ \A j \in 1..(i - 1) : ~search(compiled[j], l)
    ELSE 0

\* the indices of all the patterns that match the line, in the order of the list
RECURSIVE matches_from(_, _, _)
matches_from(compiled, l, i) ==
    IF i > Len(compiled) THEN <<>>
    ELSE (IF search(compiled[i], l) THEN <<i>> ELSE <<>>) \o matches_from(compiled, l, i + 1)

\* triggered with the loop over the patterns never left early
triggered_every_match(compiled, l) == matches_from(compiled, l, 1)

\* the patterns for which the body of `if pattern.search(line):` runs: the
\* body ends in `break`, so the first match only
triggered(compiled, l) ==
    IF first_match(compiled, l) = 0 THEN <<>> ELSE <<first_match(compiled, l)>>

(***************************************************************************)
(* Control locations.                                                      *)
(***************************************************************************)
\* after_reset with the watcher returning after a reset instead of reading on
after_reset_exits == "exit"

\* where control goes when _reset_sequence returns to its caller
after_reset == IF mode = "daemon" THEN "read" ELSE "exit"

\* where control goes when an exception leaves _reset_sequence: al_is_watching
\* catches it, logs and returns; main (exec) does not catch it
after_raise == IF mode = "daemon" THEN "exit" ELSE "crashed"

\* the call sites of t2.unload_module / t2.load_module
UnloadSites == {"unload_wifi", "unload_bt", "retry_unload_wifi", "retry_unload_bt"}
LoadSites == {"load_bt", "load_wifi", "retry_load_wifi", "retry_load_bt"}
StageSites == {"unload_wifi", "unload_bt", "load_bt", "load_wifi"}

site_module(site) ==
    IF site \in {"unload_wifi", "load_wifi", "retry_unload_wifi", "retry_load_wifi"}
    THEN WIFI ELSE BT

site_kind(site) == IF site \in UnloadSites THEN "unload" ELSE "load"

\* the entry of `calls` for the module operation called at `site`
call_of(site) ==
    <<site_kind(site), site_module(site), IF site \in StageSites THEN "stage" ELSE "retry">>


\* next_site with _unload_bt left out of _unload_all
next_site_skips_bt(site) ==
    CASE site = "unload_wifi" -> "settle"
      [] site = "unload_bt" -> "settle"
      [] site = "load_bt" -> "load_wifi"
      [] site = "load_wifi" -> "init_wait"
      [] site = "retry_unload_wifi" -> "retry_load_wifi"
      [] site = "retry_load_wifi" -> IF ~bt_ok THEN "retry_unload_bt" ELSE "verify_sleep"
      [] site = "retry_unload_bt" -> "retry_load_bt"
      [] site = "retry_load_bt" -> "verify_sleep"

\* next_site with the Bluetooth retry run whether or not hci0 was missing
next_site_full_retry(site) ==
    CASE site = "unload_wifi" -> "unload_bt"
      [] site = "unload_bt" -> "settle"
      [] site = "load_bt" -> "load_wifi"
      [] site = "load_wifi" -> "init_wait"
      [] site = "retry_unload_wifi" -> "retry_load_wifi"
      [] site = "retry_load_wifi" -> "retry_unload_bt"
      [] site = "retry_unload_bt" -> "retry_load_bt"
      [] site = "retry_load_bt" -> "verify_sleep"

\* the statement that follows the module operation called at `site`
next_site(site) ==
    CASE site = "unload_wifi" -> "unload_bt"
      [] site = "unload_bt" -> "settle"
      [] site = "load_bt" -> "load_wifi"
      [] site = "load_wifi" -> "init_wait"
      [] site = "retry_unload_wifi" -> "retry_load_wifi"
      [] site = "retry_load_wifi" -> IF ~bt_ok THEN "retry_unload_bt" ELSE "verify_sleep"
      [] site = "retry_unload_bt" -> "retry_load_bt"
      [] site = "retry_load_bt" -> "verify_sleep"

(***************************************************************************)
(* The environment's inputs.                                               *)
(***************************************************************************)
\* seconds between the end of the previous line's handling and the next line:
\* none, and the two cooldown windows reached and missed by one second
Gaps == {0, cd_sec - 1, cd_sec, cd_time - 1}

\* an age after d more seconds, counted up to `most`
aged(age, d, most) == IF age + d < most THEN age + d ELSE most

\* time.sleep(d), and the wait for a line
sleep(d) ==
    /\ lrt_age' = aged(lrt_age, d, Horizon)
    /\ n_age' = aged(n_age, d, MaxElapsed)
    /\ grant_age' = IF mode = "daemon" THEN aged(grant_age, d, Horizon) ELSE grant_age

\* the first step of the unload stage is the start of a recovery attempt
\* (and the line that triggered it is no longer looked at)
recovery_begins(first_step) ==
    /\ grant_age' = IF first_step /\ mode = "daemon" THEN 0 ELSE grant_age
    /\ queued' = (queued /\ ~first_step)

(***************************************************************************)
(* suspendfix: the steps of unload_sequence and load_sequence in the order *)
(* of their statements, as <<operation, name, "sequence">>.                *)
(***************************************************************************)
unload_sequence ==
    << <<"stop", "pipewire.socket", "sequence">>,
       <<"stop", "wireplumber.service", "sequence">>,
       <<"stop", "pipewire.service", "sequence">>,
       <<"stop", "bluetooth.service", "sequence">>,
       <<"stop", "NetworkManager.service", "sequence">>,
       <<"stop", "tiny-dfr.service", "sequence">>,
       <<"remove", "0000:06:00.0", "sequence">>,
       <<"unload", "thunderbolt", "sequence">>,
       <<"unload", "appletbdrm", "sequence">>,
       <<"unload", "hid_appletb_bl", "sequence">>,
       <<"unload", "hid_appletb_kbd", "sequence">>,
       <<"unload", "hci_bcm4377", "sequence">>,
       <<"unload", "brcmfmac_wcc", "sequence">>,
       <<"unload", "apple-bce", "sequence">> >>

load_sequence ==
    << <<"load", "apple-bce", "sequence">>,
       <<"load", "hid_appletb_bl", "sequence">>,
       <<"load", "hid_appletb_kbd", "sequence">>,
       <<"load", "appletbdrm", "sequence">>,
       <<"load", "brcmfmac_wcc", "sequence">>,
       <<"load", "hci_bcm4377", "sequence">>,
       <<"rescan", "pci", "sequence">>,
       <<"load", "thunderbolt", "sequence">>,
       <<"start", "pipewire.socket", "sequence">>,
       <<"start", "pipewire.service", "sequence">>,
       <<"start", "wireplumber.service", "sequence">>,
       <<"start", "NetworkManager", "sequence">>,
       <<"start", "bluetooth.service", "sequence">>,
       <<"start", "tiny-dfr.service", "sequence">>,
       <<"start", "wluma.service", "sequence">> >>

\* time.sleep(10) of `reload`, between the two sequences
reload_sleep == <<"sleep", "10", "sequence">>

\* the steps main runs for an action
program(action) ==
    IF action = "unload" THEN unload_sequence
    ELSE IF action = "load" THEN load_sequence
    ELSE IF action = "reload" THEN unload_sequence \o <<reload_sleep>> \o load_sequence
    ELSE <<>>

\* table_name without the replacement of "-"
table_name_as_given(module_name) == module_name

\* is_module_loaded: the name under which /proc/modules lists the module
table_name(module_name) == IF module_name = "apple-bce" THEN "apple_bce" ELSE module_name

\* the module table when suspendfix is run: every module of its sequences
\* listed (before suspend), or none (after an unload)
boot_tables ==
    { {table_name(load_sequence[i][2]) : i \in {j \in 1..Len(load_sequence) : load_sequence[j][1] = "load"}},
      {} }

\* the two libraries whose service operations are called on their own
Libraries == {"t2", "common.t2"}

\* no service operation called yet
no_call ==
    [op |-> "none", block |-> FALSE, as_user |-> FALSE, user |-> FALSE, query |-> -1,
     action |-> "none", issued |-> 0, checks |-> <<>>, failed |-> 0, error |-> FALSE,
     ret |-> "none"]

\* no module step of suspendfix entered yet
no_tries == [seen |-> <<>>, ret |-> "none"]

\* epoch_age with lrt initialised to a time inside the cooldown window
epoch_age_recent == cd_sec - 1

\* time.time() - 0.0 when the process starts: the epoch is more than Horizon
\* seconds ago
epoch_age == Horizon

(***************************************************************************)
(* The brightness tools: src/src/common/brightness_common.py.  A string is *)
(* the sequence of its characters.  "superscript2" stands for U+00B2, one  *)
(* of the characters str.isdigit accepts and int rejects.                  *)
(***************************************************************************)
DecimalDigits == <<"0", "1", "2", "3", "4", "5", "6", "7", "8", "9">>

Decimal == {DecimalDigits[i] : i \in 1..Len(DecimalDigits)}

digit_value(c) == (CHOOSE i \in 1..Len(DecimalDigits) : DecimalDigits[i] = c) - 1

\* the characters an argument is made of
Alphabet == {"0", "1", "4", "5", "9", "%", "-", "superscript2"}

\* the strings of at most n characters
Strings(n) == UNION {[1..k -> Alphabet] : k \in 0..n}

\* input_str.replace("%", "")
remove_percent(s) == SelectSeq(s, LAMBDA c : c # "%")

\* str.isdigit: not empty, every character a digit
isdigit(s) == s # <<>> /\ \A i \in 1..Len(s) : s[i] \in Decimal \cup {"superscript2"}

\* int(s) raises ValueError
int_raises(s) == s = <<>> \/ \E i \in 1..Len(s) : s[i] \notin Decimal

RECURSIVE int(_)
\* int(s) for a string of decimal digits
int(s) == IF s = <<>> THEN 0 ELSE 10 * int(SubSeq(s, 1, Len(s) - 1)) + digit_value(s[Len(s)])

RECURSIVE str(_)
\* str(n) for n >= 0
str(n) == IF n < 10 THEN <<DecimalDigits[n + 1]>> ELSE Append(str(n \div 10), DecimalDigits[(n % 10) + 1])

\* what a function gives: a value, or the exception that leaves it
returns(val) == [raised |-> FALSE, val |-> val]
raises == [raised |-> TRUE, val |-> 0]

validate_percentage(arg) ==
    LET clean_input == remove_percent(arg)
    IN  IF ~isdigit(clean_input) THEN returns(-1)
        ELSE IF int_raises(clean_input) THEN raises
        ELSE IF int(clean_input) > 100 THEN returns(-1)
        ELSE returns(int(clean_input))

touchbar_calculate_new_level(percentage) ==
    IF percentage = 0 THEN 0 ELSE IF percentage <= 49 THEN 1 ELSE 2

calculate_percentage(current, max_val) ==
    IF max_val = 0 THEN 0 ELSE (current * 100) \div max_val

\* int((max_value * percentage) / 100)
new_level(max_val, percentage) == (max_val * percentage) \div 100

\* the values max_brightness is read as (0: the file could not be read)
MaxValues == {0, 7, 100, 255}

e_success == 0
e_failure == 1

t_lock_bat == 30
t_screen_bat == 60
t_sleep_bat == 120
ac_multiplier == 2
T_DIM_OFFSET == 15

\* no apply_brightness_* call made
not_applied == [op |-> "none", validated |-> returns(-1), exit |-> e_success, written |-> -1]

no_brightness_tool ==
    /\ input_str = <<>>
    /\ max_value = 0
    /\ outcome = not_applied

(***************************************************************************)
(* The idle manager: src/src/idle/idle-manager.py (0.0.8, script           *)
(* "idle-manager") and src/idle/idle-manager.py ("legacy idle-manager").   *)
(* A command line is the sequence of its shell words, ";" being a word of  *)
(* its own; an argument is the sequence of the words it is made of.        *)
(***************************************************************************)
IdleManagers == {"idle-manager", "legacy idle-manager"}

cmd_lock == <<"qs", "-c", "noctalia-shell", "ipc", "call", "lockScreen", "lock">>
mon_off == <<"niri", "msg", "action", "power-off-monitors">>
mon_on == <<"niri", "msg", "action", "power-on-monitors">>

\* f"{sys.executable} {os.path.abspath(__file__)} {action}"
get_self_cmd(action) == <<"python3", "idle-manager.py", action>>

\* f"{a}; {b}"
then(a, b) == a \o <<";">> \o b

\* str(int(t)) as one word
seconds_word(t) ==
    CASE t = 30 -> "30" [] t = 45 -> "45" [] t = 60 -> "60"
      [] t = 105 -> "105" [] t = 120 -> "120" [] t = 240 -> "240"

\* the dictionary t of update_timeouts
timeouts(ac) ==
    LET mult == IF ac THEN ac_multiplier ELSE 1
    IN  [lock |-> t_lock_bat * mult,
         dim |-> (t_screen_bat * mult) - T_DIM_OFFSET,
         screen |-> t_screen_bat * mult,
         sleep |-> t_sleep_bat * mult]

\* the list swayidle_args of update_timeouts
swayidle_args(ac, inh, audio) ==
    LET t == timeouts(ac)
        cmd_idle == get_self_cmd("idle")
        cmd_active == get_self_cmd("active")
        cmd_dim == get_self_cmd("dim")
    IN  <<<<"swayidle">>, <<"-w">>,
          <<"lock">>, then(cmd_lock, cmd_idle),
          <<"before-sleep">>, then(then(cmd_lock, cmd_idle), mon_off)>>
        \o (IF ~inh
            THEN (IF t.dim > 0
                  THEN <<<<"timeout">>, <<seconds_word(t.dim)>>, cmd_dim, <<"resume">>, cmd_active>>
                  ELSE <<>>)
                 \o <<<<"timeout">>, <<seconds_word(t.screen)>>, then(cmd_idle, mon_off),
                      <<"resume">>, then(mon_on, cmd_active)>>
                 \o (IF ~audio
                     THEN <<<<"timeout">>, <<seconds_word(t.sleep)>>, <<"systemctl", "sleep">>>>
                     ELSE <<>>)
            ELSE <<>>)

RECURSIVE join(_)
\* ' '.join(args): the words of the arguments, one after the other
join(args) == IF args = <<>> THEN <<>> ELSE Head(args) \o join(Tail(args))

\* f"sudo -E -u {target_user} {' '.join(swayidle_args)}"
full_cmd(args) == <<"sudo", "-E", "-u", "user">> \o join(args)

RECURSIVE first_command(_)
\* /bin/zsh -c: the first command of the list, up to the first ";"
first_command(words) ==
    IF words = <<>> \/ Head(words) = ";" THEN <<>>
    ELSE <<Head(words)>> \o first_command(Tail(words))

\* the arguments swayidle is started with by `sudo -E -u user swayidle ...`
sudo_command(words) == [i \in 1..(Len(words) - 4) |-> <<words[i + 4]>>]

\* Popen(full_cmd, shell=True, executable='/bin/zsh')
shell_argv(args) == sudo_command(first_command(full_cmd(args)))

\* the list cmd_list of the legacy update_timeouts (never built when inhibited)
legacy_cmd_list(ac, audio) ==
    LET t == timeouts(ac)
    IN  <<<<"swayidle">>, <<"-w">>,
          <<"timeout">>, <<seconds_word(t.lock)>>, cmd_lock,
          <<"timeout">>, <<seconds_word(t.screen)>>, then(get_self_cmd("idle"), mon_off),
          <<"resume">>, then(mon_on, get_self_cmd("active"))>>
        \o (IF ~audio
            THEN <<<<"timeout">>, <<seconds_word(t.sleep)>>, <<"systemctl", "suspend">>>>
            ELSE <<>>)

\* state.json does not exist
state_absent == [power_profile |-> <<>>, kbd_brightness |-> <<>>, screen_brightness |-> <<>>]

\* os.path.exists(state_file)
exists(file) == file # state_absent

\* save_state: the file after the call
save_state(file, key, val) == IF file[key] # <<>> THEN file ELSE [file EXCEPT ![key] = val]

\* get_state: <<>> for None
get_state(file, key) == file[key]

\* `bdp -s`, `bkb -s`: show_brightness prints f"{pct}%"
show_brightness(raw, max_val) == Append(str(calculate_percentage(raw, max_val)), "%")

\* `bdp <arg>`, `bkb <arg>`: the level in the brightness file afterwards
set_brightness(arg, raw, max_val) ==
    LET percentage == validate_percentage(arg)
    IN  IF percentage.raised \/ percentage.val = -1 THEN raw
        ELSE new_level(max_val, percentage.val)

\* curr_bdp_raw.strip().strip('%')
strip_percent(s) ==
    LET keep == {i \in 1..Len(s) : s[i] # "%"}
    IN  IF keep = {} THEN <<>>
        ELSE SubSeq(s, CHOOSE i \in keep : \A j \in keep : i <= j,
                       CHOOSE i \in keep : \A j \in keep : i >= j)

\* dim_screen: the session and the file after the call
dim_screen(s, file) ==
    LET curr_bdp_raw == show_brightness(s.screen, s.screen_max)
        digits == strip_percent(curr_bdp_raw)
    IN  IF int_raises(digits) \/ int(digits) <= 10
        THEN [session |-> s, file |-> file]
        ELSE [session |-> [s EXCEPT !.screen = set_brightness(<<"1", "0">>, s.screen, s.screen_max)],
              file |-> save_state(file, "screen_brightness", str(int(digits)))]

\* enter_idle: the session and the file after the call
enter_idle(s, file) ==
    LET curr_pp == <<s.power_profile>>
        saves_pp == curr_pp # <<"power-saver">>
        file1 == IF saves_pp THEN save_state(file, "power_profile", curr_pp) ELSE file
        curr_bkb == show_brightness(s.kbd, s.kbd_max)
        saves_kb == curr_bkb # <<"0">>
        file2 == IF saves_kb THEN save_state(file1, "kbd_brightness", curr_bkb) ELSE file1
        s2 == [s EXCEPT !.power_profile = IF saves_pp THEN "power-saver" ELSE @,
                        !.kbd = IF saves_kb THEN set_brightness(<<"0">>, @, s.kbd_max) ELSE @]
    IN  dim_screen(s2, file2)

\* exit_idle: the session and the file after the call
exit_idle(s, file) ==
    IF ~exists(file) THEN [session |-> s, file |-> file]
    ELSE LET pp == get_state(file, "power_profile")
             kb == get_state(file, "kbd_brightness")
             sc == get_state(file, "screen_brightness")
         IN  [session |->
                 [s EXCEPT !.power_profile = IF pp # <<>> THEN pp[1] ELSE @,
                           !.kbd = IF kb # <<>> THEN set_brightness(kb, @, s.kbd_max) ELSE @,
                           !.screen = IF sc # <<>> THEN set_brightness(sc, @, s.screen_max) ELSE @],
              file |-> state_absent]

\* update_timeouts without the restore
transition_unsafe(s, file) == [session |-> s, file |-> file]

\* update_timeouts, "Transition safety": the session and the file when the
\* old process is terminated
transition_safety(s, file) ==
    IF exists(file) THEN exit_idle(s, file) ELSE [session |-> s, file |-> file]

\* terminate with the process left running
terminate_skipped(process, processes) == processes

\* timeout_process.terminate(); timeout_process.wait()
terminate(process, processes) == processes \ {process}

\* the test always true
differs_always(observed, stored) == TRUE

\* `if is_playing != audio_playing`, and the like for the other flags
differs(observed, stored) == observed # stored

\* a handler that observes none of the flags
other_handler == [name |-> "other", observed |-> FALSE, matched |-> FALSE, restored |-> FALSE]

\* no handler has run
no_handler == [name |-> "none", observed |-> FALSE, matched |-> FALSE, restored |-> FALSE]

\* the sessions the manager is started in
Sessions ==
    [power_profile : {"balanced", "power-saver"},
     kbd : {0, 60}, kbd_max : {100},
     screen : {5, 52}, screen_max : {100, 255}]

\* a session of another program: nothing of it is looked at
no_session ==
    [power_profile |-> "balanced", kbd |-> 0, kbd_max |-> 0, screen |-> 0, screen_max |-> 0]

no_idle_manager ==
    /\ on_ac = FALSE
    /\ audio_playing = FALSE
    /\ inhibited = FALSE
    /\ timeout_process = 0
    /\ alive = {}
    /\ spawned = 0
    /\ argv = <<>>
    /\ state_file = state_absent
    /\ session = no_session
    /\ before = <<>>
    /\ handler = no_handler

Init ==
    /\ script \in {"0.2.5", "legacy", "suspendfix"} \cup Libraries
    /\ mode \in IF script = "0.2.5" THEN {"exec", "daemon", "version"}
                ELSE IF script = "legacy" THEN {"daemon"}
                ELSE IF script = "suspendfix"
                     THEN {"load", "unload", "reload", "version", "call"}
                ELSE {"call"}
    /\ pc = IF mode = "call" THEN "call" ELSE "main"
    /\ svc = no_call
    /\ failure_log = <<>>
    /\ tries = no_tries
    /\ gated = FALSE
    \* lrt = 0.0 and no n yet
    /\ lrt_age = epoch_age
    /\ n_age = MaxElapsed
    /\ line = <<>>
    /\ loaded \in IF script = "0.2.5" THEN SUBSET Modules
                 ELSE IF script = "legacy" THEN SUBSET {modules[1], modules[2]}
                 ELSE IF script = "suspendfix" /\ mode # "call" THEN boot_tables
                 ELSE {{}}
    /\ attempt = 0
    /\ retries = 0
    /\ wifi_ok = FALSE
    /\ bt_ok = FALSE
    /\ result = "none"
    /\ calls = <<>>
    /\ rets = <<>>
    /\ seen = <<>>
    /\ notes = <<>>
    /\ invocation = 1
    /\ prev_result = "none"
    \* no recovery yet
    /\ grant_age = Horizon
    /\ queued = FALSE
    /\ stream_error = "none"
    /\ no_idle_manager
    /\ no_brightness_tool

(***************************************************************************)
(* t2.execute_command(cmd, as_user=True) with a notify-send command: the   *)
(* desktop user is resolved first, which raises when no user is logged in; *)
(* the exit status of notify-send itself is ignored by every caller.       *)
(***************************************************************************)
\* notify with the notification sent twice
notify_twice(kind, ok) == ok /\ notes' = Append(Append(notes, kind), kind)

notify(kind, ok) == ok /\ notes' = Append(notes, kind)

\* an exception leaves _reset_sequence (or a caller's notification)
raise ==
    /\ pc' = after_raise
    /\ result' = "raised"
    /\ attempt' = 0

\* _reset_sequence returns `val` to its caller
return_reset(val) ==
    /\ pc' = after_reset
    /\ result' = IF val THEN "True" ELSE "False"
    /\ attempt' = 0

(***************************************************************************)
(* The log stream.  Popen of journalctl raises nothing ("none"),           *)
(* PermissionError (journalctl may not be executed) or another exception   *)
(* (FileNotFoundError: no journalctl); the read of a line from p.stdout,   *)
(* opened with text=True, raises UnicodeDecodeError on bytes it cannot     *)
(* decode.  Both except clauses of the watcher log and fall to the end of  *)
(* the function.                                                           *)
(***************************************************************************)
OpenErrors == {"PermissionError", "FileNotFoundError"}
ReadErrors == {"UnicodeDecodeError"}

\* where the except clauses of the watcher leave control
handled_stream_error(error, loop) == "exit"

open_stream(error, loop) ==
    /\ stream_error' = error
    /\ pc' = IF error = "none" THEN loop ELSE handled_stream_error(error, loop)

\* `for line in p.stdout` raises; no line is delivered
read_raises(loop) ==
    /\ \E error \in ReadErrors :
          /\ stream_error' = error
          /\ pc' = handled_stream_error(error, loop)
    /\ line' = <<>>
    /\ UNCHANGED <<idle_vars, brightness_vars, gated, tries, failure_log, svc, script, mode, invocation, prev_result, queued, lrt_age, n_age, grant_age,
                   loaded, attempt, retries, wifi_ok, bt_ok, result, calls, rets, seen, notes>>

(***************************************************************************)
(* main                                                                    *)
(***************************************************************************)
main ==
    /\ script = "0.2.5"
    /\ pc = "main"
    /\ \/ /\ mode = "version"
          /\ pc' = "exit"
          /\ UNCHANGED <<notes, stream_error>>
       \/ /\ mode = "exec"
          /\ \E ok \in BOOLEAN :
                IF ok THEN notify("manual", ok) /\ pc' = "reset"
                      ELSE pc' = "crashed" /\ UNCHANGED notes
          /\ UNCHANGED stream_error
       \/ /\ mode = "daemon"
          \* subprocess.Popen: PermissionError and any other error are logged
          \* and al_is_watching returns
          /\ \E error \in OpenErrors \cup {"none"} : open_stream(error, "read")
          /\ UNCHANGED notes
    /\ UNCHANGED <<idle_vars, brightness_vars, gated, tries, failure_log, svc, script, mode, invocation, prev_result, queued, lrt_age, n_age, grant_age, line, loaded, attempt, retries, wifi_ok, bt_ok,
                   result, calls, rets, seen>>

(***************************************************************************)
(* al_is_watching: one iteration of `for line in p.stdout`.  The lines     *)
(* journalctl writes while the thread is inside _reset_sequence stay in    *)
(* the pipe; such a line is read without any wait once the thread is back  *)
(* in the loop.                                                            *)
(***************************************************************************)
\* the handling of the previous line ran the unload stage
recovery_ran == calls # <<>>

al_is_watching ==
    /\ pc = "read"
    /\ stream_error' = "none"
    /\ \E l \in Lines, gap \in Gaps, waiting \in BOOLEAN :
          /\ waiting => (gap = 0 /\ recovery_ran)
          /\ queued' = waiting
          /\ sleep(gap)
          /\ line' = l
          /\ calls' = <<>>
          /\ rets' = <<>>
          /\ seen' = <<>>
          /\ failure_log' = <<>>
          /\ IF first_match(p_list, l) = 0
             THEN /\ pc' = "read"
                  /\ notes' = <<>>
                  /\ result' = "none"
             ELSE \E ok \in BOOLEAN :
                     IF ok THEN /\ notes' = [i \in 1..Len(triggered(p_list, l)) |-> "hang"]
                                /\ pc' = "reset"
                                /\ result' = "none"
                           ELSE /\ notes' = <<>>
                                /\ pc' = "exit"
                                /\ result' = "none"
    /\ UNCHANGED <<idle_vars, brightness_vars, gated, tries, svc, script, mode, invocation, prev_result, loaded, attempt, retries, wifi_ok, bt_ok>>

\* an iteration of `for line in p.stdout` that raises
al_is_watching_error == pc = "read" /\ read_raises("read")

(***************************************************************************)
(* _reset_sequence: entry, cooldown gate, start notification               *)
(***************************************************************************)
\* cooldown_active with the window one second short
cooldown_one_short(since_lrt) == since_lrt < cd_sec - 1

\* cooldown_active with a window of half the length
cooldown_half_window(since_lrt) == since_lrt < cd_sec \div 2

\* cooldown_active with the gate never closed
cooldown_never(since_lrt) == FALSE

\* n - lrt < cd_sec, on n - lrt
cooldown_active(since_lrt) == since_lrt < cd_sec

_reset_sequence ==
    /\ pc = "reset"
    /\ n_age' = 0
    /\ gated' = TRUE
    /\ UNCHANGED grant_age
    /\ IF cooldown_active(lrt_age)
       THEN /\ return_reset(FALSE)
            /\ UNCHANGED notes
       ELSE \E ok \in BOOLEAN :
               IF ok THEN /\ notify("started", ok)
                          /\ pc' = "unload_wifi"
                          /\ UNCHANGED <<result, attempt>>
                     ELSE raise /\ UNCHANGED notes
    /\ UNCHANGED <<idle_vars, brightness_vars, tries, failure_log, svc, script, mode, invocation, prev_result, stream_error, queued, lrt_age, line, loaded, retries, wifi_ok, bt_ok,
                   calls, rets, seen>>

(***************************************************************************)
(* t2.unload_module / t2.load_module at one of their call sites            *)
(***************************************************************************)
\* return_op with the stage given up when a step returns False
return_op_checked(site, val) ==
    /\ rets' = IF site \in StageSites THEN Append(rets, val) ELSE rets
    /\ IF val \/ site \notin StageSites
       THEN pc' = next_site(site) /\ attempt' = 0 /\ UNCHANGED result
       ELSE return_reset(FALSE)

\* the module operation returns `val`; every caller drops the value
return_op(site, val) ==
    /\ pc' = next_site(site)
    /\ attempt' = 0
    /\ rets' = IF site \in StageSites THEN Append(rets, val) ELSE rets
    /\ UNCHANGED result

\* raise_op with the exception swallowed and the sequence going on
raise_op_passes(site) ==
    /\ pc' = next_site(site)
    /\ attempt' = 0
    /\ UNCHANGED <<rets, result>>

\* an exception leaves the module operation: _unload_all/_load_all catch it
\* and return False, which ends _reset_sequence with False; a narrow retry of
\* _verify_connectivity lets it through
raise_op(site) ==
    /\ IF site \in StageSites THEN return_reset(FALSE) ELSE raise
    /\ UNCHANGED rets

unload_module ==
    /\ pc \in UnloadSites
    /\ attempt = 0
    /\ calls' = Append(calls, call_of(pc))
    /\ IF site_module(pc) \notin loaded
       THEN return_op(pc, TRUE)
       ELSE /\ attempt' = 1
            /\ UNCHANGED <<pc, rets, result>>
    /\ recovery_begins(pc = "unload_wifi")
    /\ UNCHANGED <<idle_vars, brightness_vars, gated, tries, failure_log, svc, script, mode, invocation, prev_result, stream_error, lrt_age, n_age, line, loaded, retries, wifi_ok, bt_ok, seen, notes>>

\* unload_succeeded on the exit status alone
unload_succeeded_on_status(code, m, table) == code = 0

\* one pass of the loop: modprobe --remove, then the re-check of the table
unload_succeeded(code, m, table) == code = 0 /\ m \notin table

unload_attempt ==
    /\ pc \in UnloadSites
    /\ attempt \in 1..max_attempt
    /\ \/ \E code \in {0, 1}, gone \in BOOLEAN :
             /\ loaded' = IF gone THEN loaded \ {site_module(pc)} ELSE loaded
             /\ IF unload_succeeded(code, site_module(pc), loaded')
                THEN /\ sleep(delay)
                     /\ return_op(pc, TRUE)
                ELSE /\ sleep(backoff)
                     /\ IF attempt = max_attempt
                        THEN return_op(pc, FALSE)
                        ELSE /\ attempt' = attempt + 1
                             /\ UNCHANGED <<pc, rets, result>>
       \/ /\ raise_op(pc)
          /\ UNCHANGED <<lrt_age, n_age, grant_age, loaded>>
    /\ UNCHANGED <<idle_vars, brightness_vars, gated, tries, failure_log, svc, script, mode, invocation, prev_result, stream_error, queued, line, retries, wifi_ok, bt_ok, calls, seen, notes>>

load_module ==
    /\ pc \in LoadSites
    /\ attempt = 0
    /\ calls' = Append(calls, call_of(pc))
    /\ IF site_module(pc) \in loaded
       THEN return_op(pc, TRUE)
       ELSE /\ attempt' = 1
            /\ UNCHANGED <<pc, rets, result>>
    /\ UNCHANGED <<idle_vars, brightness_vars, gated, tries, failure_log, svc, script, mode, invocation, prev_result, stream_error, queued, lrt_age, n_age, grant_age, line, loaded, retries, wifi_ok, bt_ok, seen, notes>>

load_attempt ==
    /\ pc \in LoadSites
    /\ attempt \in 1..max_attempt
    /\ \/ \E code \in {0, 1} :
             /\ loaded' = IF code = 0 THEN loaded \cup {site_module(pc)} ELSE loaded
             /\ IF code = 0
                THEN /\ sleep(delay)
                     /\ return_op(pc, TRUE)
                ELSE /\ sleep(backoff)
                     /\ IF attempt = max_attempt
                        THEN return_op(pc, FALSE)
                        ELSE /\ attempt' = attempt + 1
                             /\ UNCHANGED <<pc, rets, result>>
       \/ /\ raise_op(pc)
          /\ UNCHANGED <<lrt_age, n_age, grant_age, loaded>>
    /\ UNCHANGED <<idle_vars, brightness_vars, gated, tries, failure_log, svc, script, mode, invocation, prev_result, stream_error, queued, line, retries, wifi_ok, bt_ok, calls, seen, notes>>

(***************************************************************************)
(* _reset_sequence: the two sleeps between the stages                      *)
(***************************************************************************)
hardware_settling ==
    /\ pc = "settle"
    /\ sleep(settle)
    /\ pc' = "load_bt"
    /\ UNCHANGED <<idle_vars, brightness_vars, gated, tries, failure_log, svc, script, mode, invocation, prev_result, stream_error, queued, line, loaded, attempt, retries, wifi_ok, bt_ok,
                   result, calls, rets, seen, notes>>

hardware_initialization ==
    /\ pc = "init_wait"
    /\ sleep(settle)
    /\ pc' = "verify"
    /\ retries' = verify_retries
    /\ UNCHANGED <<idle_vars, brightness_vars, gated, tries, failure_log, svc, script, mode, invocation, prev_result, stream_error, queued, line, loaded, attempt, wifi_ok, bt_ok,
                   result, calls, rets, seen, notes>>

(***************************************************************************)
(* _verify_connectivity: one pass                                          *)
(***************************************************************************)
\* connectivity_ok with `or` for `and`
connectivity_either(w, b) == w \/ b

\* retries_left with the last retry never taken
retries_left_but_one(r) == r > 1

\* first_retry_site with the Wi-Fi retry run whether or not Wi-Fi was missing
first_retry_always_wifi(w, b) == "retry_unload_wifi"

\* recovery_time with lrt = n, the time of the gate
recovery_time_at_gate == n_age

\* recovery_time with the assignment lost (lrt keeps its value)
recovery_time_stale == lrt_age

\* `if wifi_ok and bt_ok`
connectivity_ok(w, b) == w /\ b

\* `if retries > 0`
retries_left(r) == r > 0

\* the first narrow retry of a pass: `if not wifi_ok` comes before `if not bt_ok`
first_retry_site(w, b) == IF ~w THEN "retry_unload_wifi" ELSE "retry_unload_bt"

\* lrt = time.time() when verification has returned True: the age of lrt
recovery_time == 0

\* missing with both resources named whatever the pass saw
missing_both(w, b) == <<"wifi", "bt">>

\* the "Verification failed" log lines after the last pass: `if not wifi_ok`
\* logs the missing Wi-Fi interface, `if not bt_ok` the missing controller
missing(w, b) ==
    (IF ~w THEN <<"wifi">> ELSE <<>>) \o (IF ~b THEN <<"bt">> ELSE <<>>)

_verify_connectivity ==
    /\ pc = "verify"
    /\ \/ \E w \in BOOLEAN, b \in BOOLEAN :
             /\ wifi_ok' = w
             /\ bt_ok' = b
             /\ seen' = Append(seen, <<w, b>>)
             /\ IF connectivity_ok(w, b)
                THEN \E ok \in BOOLEAN :
                        IF ok THEN /\ notify("restored", ok)
                                   /\ lrt_age' = recovery_time
                                   /\ return_reset(TRUE)
                                   /\ UNCHANGED failure_log
                              ELSE raise /\ UNCHANGED <<notes, lrt_age, failure_log>>
                ELSE IF retries_left(retries)
                THEN /\ pc' = first_retry_site(w, b)
                     /\ UNCHANGED <<notes, lrt_age, result, attempt, failure_log>>
                ELSE \E ok \in BOOLEAN :
                        IF ok THEN /\ notify("failed", ok)
                                   /\ failure_log' = missing(w, b)
                                   /\ return_reset(FALSE)
                                   /\ UNCHANGED lrt_age
                              ELSE raise /\ UNCHANGED <<notes, lrt_age, failure_log>>
       \* os.listdir("/sys/class/net") raises
       \/ /\ raise
          /\ UNCHANGED <<wifi_ok, bt_ok, seen, notes, lrt_age, failure_log>>
    /\ UNCHANGED <<idle_vars, brightness_vars, gated, tries, svc, script, mode, invocation, prev_result, stream_error, queued, n_age, grant_age, line, loaded, retries, calls, rets>>

\* time.sleep(2); return _verify_connectivity(retries - 1)
verify_again ==
    /\ pc = "verify_sleep"
    /\ sleep(verify_sleep)
    /\ retries' = retries - 1
    /\ pc' = "verify"
    /\ UNCHANGED <<idle_vars, brightness_vars, gated, tries, failure_log, svc, script, mode, invocation, prev_result, stream_error, queued, line, loaded, attempt, wifi_ok, bt_ok,
                   result, calls, rets, seen, notes>>


(***************************************************************************)
(* The legacy script: __main__ and Al_is_watching up to the read loop      *)
(***************************************************************************)
legacy_main ==
    /\ script = "legacy"
    /\ pc = "main"
    \* subprocess.Popen: every error is logged and Al_is_watching returns
    /\ \E error \in OpenErrors \cup {"none"} : open_stream(error, "legacy_read")
    /\ UNCHANGED <<idle_vars, brightness_vars, gated, tries, failure_log, svc, script, mode, invocation, prev_result, queued, lrt_age, n_age, grant_age, line, loaded, attempt, retries,
                   wifi_ok, bt_ok, result, calls, rets, seen, notes>>

\* time.time() - last_recovery_time < cd_time, on the difference
legacy_cooldown_active(since_last) == since_last < cd_time

\* one iteration of `for line in p.stdout`, up to the call of _unload;
\* lrt_age is the age of the local last_recovery_time
Al_is_watching ==
    /\ pc = "legacy_read"
    /\ stream_error' = "none"
    /\ \E l \in Lines, gap \in Gaps, waiting \in BOOLEAN :
          /\ waiting => (gap = 0 /\ recovery_ran)
          /\ queued' = waiting
          /\ sleep(gap)
          /\ line' = l
          /\ calls' = <<>>
          /\ rets' = <<>>
          /\ gated' = (gated \/ first_match(patterns, l) # 0)
          /\ pc' = IF first_match(patterns, l) # 0
                      /\ ~legacy_cooldown_active(aged(lrt_age, gap, Horizon))
                   THEN "legacy_unload" ELSE "legacy_read"
    /\ UNCHANGED <<idle_vars, brightness_vars, tries, failure_log, svc, script, mode, invocation, prev_result, loaded, attempt, retries, wifi_ok, bt_ok,
                   result, seen, notes>>

\* an iteration of `for line in p.stdout` that raises
Al_is_watching_error == pc = "legacy_read" /\ read_raises("legacy_read")

\* the commands of _unload and of _load, in the order of their loops
unload_steps ==
    [i \in 1..Len(services) |-> <<"stop", reversed(services)[i], "stage">>]
    \o [i \in 1..Len(modules) |-> <<"unload", reversed(modules)[i], "stage">>]

load_steps ==
    [i \in 1..Len(modules) |-> <<"load", modules[i], "stage">>]
    \o [i \in 1..Len(services) |-> <<"start", services[i], "stage">>]

\* _exec_cmd: the command ran with exit status 0 (True) or not (False); a
\* modprobe that succeeds changes the module table
_exec_cmd(step, ok) ==
    /\ calls' = Append(calls, step)
    /\ rets' = Append(rets, ok)
    /\ loaded' = IF ~ok THEN loaded
                 ELSE IF step[1] = "unload" THEN loaded \ {step[2]}
                 ELSE IF step[1] = "load" THEN loaded \cup {step[2]}
                 ELSE loaded

\* _unload: one pass of its loops, and time.sleep(5) after the last
_unload ==
    /\ pc = "legacy_unload"
    /\ \E ok \in BOOLEAN : _exec_cmd(unload_steps[Len(calls) + 1], ok)
    /\ IF Len(calls) + 1 = Len(unload_steps)
       THEN sleep(settle) /\ pc' = "legacy_load" /\ UNCHANGED queued
       ELSE recovery_begins(calls = <<>>) /\ UNCHANGED <<lrt_age, n_age, pc>>
    /\ UNCHANGED <<idle_vars, brightness_vars, gated, tries, failure_log, svc, script, mode, invocation, prev_result, stream_error, line, attempt, retries, wifi_ok, bt_ok,
                   result, seen, notes>>

\* _load: one pass of its loops; after the last, last_recovery_time = time.time()
_load ==
    /\ pc = "legacy_load"
    /\ \E ok \in BOOLEAN :
          _exec_cmd(load_steps[Len(calls) - Len(unload_steps) + 1], ok)
    /\ IF Len(calls) + 1 = Len(unload_steps) + Len(load_steps)
       THEN lrt_age' = 0 /\ pc' = "legacy_read"
       ELSE UNCHANGED <<lrt_age, pc>>
    /\ UNCHANGED <<idle_vars, brightness_vars, gated, tries, failure_log, svc, script, mode, invocation, prev_result, stream_error, queued, n_age, grant_age, line, attempt, retries, wifi_ok, bt_ok,
                   result, seen, notes>>

(***************************************************************************)
(* t2.start_service / t2.stop_service (src/src/t2.py), _start_service /    *)
(* _stop_service with _manage_service (src/src/common/t2.py) and           *)
(* start_service / stop_service of suspendfix, called on their own with    *)
(* the block and as_user of the caller.  svc.user tells whether a desktop  *)
(* user is logged in, svc.query is the exit status of the is-active query  *)
(* made before the loop, svc.issued counts the systemctl start / restart / *)
(* stop commands the call has run, svc.checks holds the exit status of     *)
(* each is-active check made after a command, svc.failed counts the passes *)
(* whose check did not confirm the action.  The time.sleep(1) between      *)
(* passes touches no state of the library.                                 *)
(***************************************************************************)
\* exit status of `systemctl is-active --quiet`: 0 active, 3 inactive
Codes == {0, 3}

\* service_confirmed with every action confirmed by an inactive service
service_confirmed_inactive(action, code) == code # 0

\* the is-active check after the command confirms the action
service_confirmed(action, code) == IF action = "stop" THEN code # 0 ELSE code = 0

\* a loop that goes on to a fourth pass
loop_ends_one_later(a) == a = max_attempt + 1

\* `for attempt in range(1, 4)` ends after the pass with `attempt`
loop_ends(a) == a = max_attempt

\* an exception inside the operation (the desktop user is not resolved, the
\* command cannot be run): t2 and suspendfix log it and return False,
\* common.t2 has no handler and the exception leaves the operation
service_raises(s) ==
    /\ svc' = [s EXCEPT !.error = TRUE,
                        !.ret = IF script = "common.t2" THEN "raised" ELSE "False"]
    /\ pc' = "returned"
    /\ attempt' = 0

\* the operation returns `val`
service_returns(s, val) ==
    /\ svc' = [s EXCEPT !.ret = val]
    /\ pc' = "returned"
    /\ attempt' = 0

\* runs with every command run whether or not a desktop user was found
runs_always(s) == TRUE

\* whether the runner runs the commands of the call: run_cmd_wrapper of
\* suspendfix returns ("", "No active user found", 1) for an as_user command
\* when no desktop user was found at start; t2 and common.t2 run it or raise
runs(s) == ~(script = "suspendfix" /\ s.as_user /\ ~s.user)

\* whether the user lookup of an as_user command raises: get_active_user of
\* t2 (once, at entry), _get_active_user of common.t2 (at every command)
lookup_raises(s) == script \in Libraries /\ s.as_user /\ ~s.user

\* the exit status run_cmd_wrapper reports for a command it did not run
not_run == 1

\* start_service up to its loop: the runner is chosen (as_user resolves the
\* desktop user), is-active decides between "start" and "restart"
start_service ==
    /\ mode = "call"
    /\ pc = "call"
    /\ \E block \in BOOLEAN, as_user \in BOOLEAN, user \in BOOLEAN, raised \in BOOLEAN,
          code \in Codes :
          LET s == [no_call EXCEPT !.op = "start", !.block = block, !.as_user = as_user,
                                   !.user = user]
              c == IF runs(s) THEN code ELSE not_run
          IN  IF lookup_raises(s) \/ (runs(s) /\ raised)
              THEN service_raises(s)
              ELSE /\ svc' = [s EXCEPT !.query = c,
                                       !.action = IF c = 0 THEN "restart" ELSE "start"]
                   /\ pc' = "service_loop"
                   /\ attempt' = 1
    /\ UNCHANGED <<idle_vars, brightness_vars, gated, tries, failure_log, script, mode, invocation, prev_result, stream_error, queued, lrt_age,
                   n_age, grant_age, line, loaded, retries, wifi_ok, bt_ok, result, calls,
                   rets, seen, notes>>

\* stop_service up to its loop
stop_service ==
    /\ mode = "call"
    /\ pc = "call"
    /\ \E block \in BOOLEAN, as_user \in BOOLEAN, user \in BOOLEAN :
          LET s == [no_call EXCEPT !.op = "stop", !.block = block, !.as_user = as_user,
                                   !.user = user, !.action = "stop"]
          IN  IF lookup_raises(s) /\ script = "t2"
              THEN service_raises(s)
              ELSE /\ svc' = s
                   /\ pc' = "service_loop"
                   /\ attempt' = 1
    /\ UNCHANGED <<idle_vars, brightness_vars, gated, tries, failure_log, script, mode, invocation, prev_result, stream_error, queued, lrt_age,
                   n_age, grant_age, line, loaded, retries, wifi_ok, bt_ok, result, calls,
                   rets, seen, notes>>

\* one pass of `for attempt in range(1, 4)`: the command, then for a blocking
\* call the is-active check and time.sleep(1) when it does not confirm
service_attempt ==
    /\ mode = "call"
    /\ pc = "service_loop"
    /\ attempt >= 1
    /\ \E code \in Codes, raised \in {"none", "command", "check"} :
          IF lookup_raises(svc) \/ (runs(svc) /\ raised = "command")
          THEN service_raises(svc)
          ELSE LET s == [svc EXCEPT !.issued = IF runs(svc) THEN @ + 1 ELSE @]
                   c == IF runs(svc) THEN code ELSE not_run
                   checked == [s EXCEPT !.checks = Append(@, c)]
               IN  IF ~svc.block THEN service_returns(s, "True")
                   ELSE IF runs(svc) /\ raised = "check" THEN service_raises(s)
                   ELSE IF service_confirmed(svc.action, c)
                        THEN service_returns(checked, "True")
                   ELSE LET f == [checked EXCEPT !.failed = @ + 1]
                        IN  IF loop_ends(attempt)
                            THEN service_returns(f, "False")
                            ELSE /\ svc' = f
                                 /\ attempt' = attempt + 1
                                 /\ UNCHANGED pc
    /\ UNCHANGED <<idle_vars, brightness_vars, gated, tries, failure_log, script, mode, invocation, prev_result, stream_error, queued, lrt_age,
                   n_age, grant_age, line, loaded, retries, wifi_ok, bt_ok, result, calls,
                   rets, seen, notes>>

(***************************************************************************)
(* suspendfix: main, and one step of unload_sequence / load_sequence.  The  *)
(* step to run is the one after the steps already called; every result is  *)
(* dropped by the sequence.  A service step, remove_device and rescan_pci   *)
(* catch their own errors and change nothing the sequences look at; the     *)
(* module steps are suspendfix's own load_module / unload_module.           *)
(***************************************************************************)
main_suspendfix ==
    /\ script = "suspendfix"
    /\ pc = "main"
    \* t2.check_root exits when not run as root
    /\ \E root \in BOOLEAN :
          pc' = IF root /\ mode # "version" THEN "sequence" ELSE "exit"
    /\ UNCHANGED <<idle_vars, brightness_vars, gated, script, mode, lrt_age, n_age, line, loaded, attempt, retries, wifi_ok,
                   bt_ok, result, calls, rets, seen, notes, invocation, prev_result,
                   grant_age, queued, stream_error, svc, failure_log, tries>>

\* the step the sequence is about to call
next_step == program(mode)[Len(calls) + 1]

\* the step whose loop is running
this_step == calls[Len(calls)]

\* where control is when n steps have returned
sequence_pc(n) == IF n = Len(program(mode)) THEN "exit" ELSE "sequence"

\* a module step returns `val`: from its entry (attempt = 0, the step is being
\* added to calls) or from a pass of its loop
step_returns(seen_now, val) ==
    /\ tries' = [seen |-> seen_now, ret |-> val]
    /\ attempt' = 0
    /\ pc' = sequence_pc(IF attempt = 0 THEN Len(calls) + 1 ELSE Len(calls))

\* a module step stays in its loop
step_retries(seen_now) ==
    /\ tries' = [seen |-> seen_now, ret |-> "none"]
    /\ attempt' = attempt + 1
    /\ UNCHANGED pc

\* t2.execute_command raises: nothing in suspendfix catches it
step_raises ==
    /\ tries' = [tries EXCEPT !.ret = "raised"]
    /\ attempt' = 0
    /\ pc' = "crashed"

\* stop_service, start_service, remove_device, rescan_pci, time.sleep(10)
sequence_step ==
    /\ script = "suspendfix"
    /\ pc = "sequence" /\ attempt = 0
    /\ next_step[1] \notin {"load", "unload"}
    /\ calls' = Append(calls, next_step)
    /\ tries' = no_tries
    /\ pc' = sequence_pc(Len(calls) + 1)
    /\ UNCHANGED <<idle_vars, brightness_vars, gated, script, mode, lrt_age, n_age, line, loaded, attempt, retries, wifi_ok,
                   bt_ok, result, rets, seen, notes, invocation, prev_result,
                   grant_age, queued, stream_error, svc, failure_log>>

\* unload_module up to its loop
suspendfix_unload_module ==
    /\ script = "suspendfix"
    /\ pc = "sequence" /\ attempt = 0
    /\ next_step[1] = "unload"
    /\ calls' = Append(calls, next_step)
    /\ IF table_name(next_step[2]) \notin loaded
       THEN step_returns(<<>>, "True")
       ELSE /\ tries' = no_tries
            /\ attempt' = 1
            /\ UNCHANGED pc
    /\ UNCHANGED <<idle_vars, brightness_vars, gated, script, mode, lrt_age, n_age, line, loaded, retries, wifi_ok,
                   bt_ok, result, rets, seen, notes, invocation, prev_result,
                   grant_age, queued, stream_error, svc, failure_log>>

\* one pass of the loop of unload_module: modprobe --remove, the re-check
suspendfix_unload_attempt ==
    /\ script = "suspendfix"
    /\ pc = "sequence" /\ attempt \in 1..max_attempt
    /\ this_step[1] = "unload"
    /\ \/ \E code \in {0, 1}, gone \in BOOLEAN :
             LET m == table_name(this_step[2])
                 table == IF gone THEN loaded \ {m} ELSE loaded
                 seen_now == Append(tries.seen, <<code, m \in table>>)
             IN  /\ loaded' = table
                 /\ IF unload_succeeded(code, m, table) THEN step_returns(seen_now, "True")
                    ELSE IF loop_ends(attempt) THEN step_returns(seen_now, "False")
                    ELSE step_retries(seen_now)
       \/ step_raises /\ UNCHANGED loaded
    /\ UNCHANGED <<idle_vars, brightness_vars, gated, script, mode, lrt_age, n_age, line, retries, wifi_ok,
                   bt_ok, result, calls, rets, seen, notes, invocation, prev_result,
                   grant_age, queued, stream_error, svc, failure_log>>

\* load_module up to its loop
suspendfix_load_module ==
    /\ script = "suspendfix"
    /\ pc = "sequence" /\ attempt = 0
    /\ next_step[1] = "load"
    /\ calls' = Append(calls, next_step)
    /\ IF table_name(next_step[2]) \in loaded
       THEN step_returns(<<>>, "True")
       ELSE /\ tries' = no_tries
            /\ attempt' = 1
            /\ UNCHANGED pc
    /\ UNCHANGED <<idle_vars, brightness_vars, gated, script, mode, lrt_age, n_age, line, loaded, retries, wifi_ok,
                   bt_ok, result, rets, seen, notes, invocation, prev_result,
                   grant_age, queued, stream_error, svc, failure_log>>

\* one pass of the loop of load_module: modprobe
suspendfix_load_attempt ==
    /\ script = "suspendfix"
    /\ pc = "sequence" /\ attempt \in 1..max_attempt
    /\ this_step[1] = "load"
    /\ \/ \E code \in {0, 1} :
             LET m == table_name(this_step[2])
                 table == IF code = 0 THEN loaded \cup {m} ELSE loaded
                 seen_now == Append(tries.seen, <<code, m \in table>>)
             IN  /\ loaded' = table
                 /\ IF code = 0 THEN step_returns(seen_now, "True")
                    ELSE IF loop_ends(attempt) THEN step_returns(seen_now, "False")
                    ELSE step_retries(seen_now)
       \/ step_raises /\ UNCHANGED loaded
    /\ UNCHANGED <<idle_vars, brightness_vars, gated, script, mode, lrt_age, n_age, line, retries, wifi_ok,
                   bt_ok, result, calls, rets, seen, notes, invocation, prev_result,
                   grant_age, queued, stream_error, svc, failure_log>>

(***************************************************************************)
(* The operator runs `WiFi-Monitor.py exec` again as soon as the previous   *)
(* run has ended (no time passes in between): a new process, whose module  *)
(* globals are initialised anew (lrt = 0.0); the kernel's module table is  *)
(* what the previous run left.                                             *)
(***************************************************************************)
exec_again ==
    /\ script = "0.2.5" /\ mode = "exec"
    /\ pc \in {"exit", "crashed"}
    /\ invocation < MaxInvocations
    /\ invocation' = invocation + 1
    /\ prev_result' = result
    /\ pc' = "main"
    /\ lrt_age' = epoch_age
    /\ gated' = FALSE
    /\ n_age' = MaxElapsed
    /\ UNCHANGED grant_age
    /\ result' = "none"
    /\ attempt' = 0 /\ retries' = 0 /\ wifi_ok' = FALSE /\ bt_ok' = FALSE
    /\ calls' = <<>> /\ rets' = <<>> /\ seen' = <<>> /\ notes' = <<>>
    /\ failure_log' = <<>>
    /\ UNCHANGED <<idle_vars, brightness_vars, tries, svc, script, mode, line, loaded, queued, stream_error>>

Next ==
    \/ main
    \/ exec_again
    \/ legacy_main
    \/ Al_is_watching
    \/ Al_is_watching_error
    \/ _unload
    \/ _load
    \/ al_is_watching
    \/ al_is_watching_error
    \/ _reset_sequence
    \/ unload_module
    \/ unload_attempt
    \/ load_module
    \/ load_attempt
    \/ hardware_settling
    \/ hardware_initialization
    \/ _verify_connectivity
    \/ verify_again
    \/ start_service
    \/ stop_service
    \/ service_attempt
    \/ main_suspendfix
    \/ sequence_step
    \/ suspendfix_unload_module
    \/ suspendfix_unload_attempt
    \/ suspendfix_load_module
    \/ suspendfix_load_attempt

Spec == Init /\ [][Next]_vars

(***************************************************************************)
(* The brightness tools called on their own.                               *)
(***************************************************************************)
\* what apply_brightness_percentage / apply_brightness_stepped does with the
\* validated percentage: `level` is the value handed to commit_brightness
applied(op, level) ==
    LET percentage == validate_percentage(input_str)
    IN  outcome' = [op |-> op, validated |-> percentage,
                    exit |-> IF percentage.raised \/ percentage.val = -1
                             THEN e_failure ELSE e_success,
                    written |-> IF percentage.raised \/ percentage.val = -1
                                THEN -1 ELSE level]

apply_brightness_percentage ==
    /\ script = "brightness" /\ outcome.op = "none"
    /\ applied("percentage", new_level(max_value, validate_percentage(input_str).val))
    /\ UNCHANGED <<hardware_vars, idle_vars, input_str, max_value>>

apply_brightness_stepped ==
    /\ script = "brightness" /\ outcome.op = "none"
    /\ applied("stepped", touchbar_calculate_new_level(validate_percentage(input_str).val))
    /\ UNCHANGED <<hardware_vars, idle_vars, input_str, max_value>>

\* every variable of the hardware recovery programs at rest, under `name`
other_program(name) ==
    /\ script = name
    /\ mode = "call"
    /\ pc = "call"
    /\ svc = no_call
    /\ failure_log = <<>>
    /\ tries = no_tries
    /\ gated = FALSE
    /\ lrt_age = epoch_age
    /\ n_age = MaxElapsed
    /\ line = <<>>
    /\ loaded = {}
    /\ attempt = 0
    /\ retries = 0
    /\ wifi_ok = FALSE
    /\ bt_ok = FALSE
    /\ result = "none"
    /\ calls = <<>>
    /\ rets = <<>>
    /\ seen = <<>>
    /\ notes = <<>>
    /\ invocation = 1
    /\ prev_result = "none"
    /\ grant_age = Horizon
    /\ queued = FALSE
    /\ stream_error = "none"

BrightnessInit ==
    /\ other_program("brightness")
    /\ no_idle_manager
    /\ input_str \in Strings(MaxLen)
    /\ max_value \in MaxValues
    /\ outcome = not_applied

BrightnessNext ==
    \/ apply_brightness_percentage
    \/ apply_brightness_stepped

BrightnessSpec == BrightnessInit /\ [][BrightnessNext]_vars

(***************************************************************************)
(* The idle manager daemon.  Its handlers run one at a time on the GLib    *)
(* main loop; `idle`, `active` and `dim` are runs of the script of their   *)
(* own, made by swayidle or by hand between two handlers.                  *)
(***************************************************************************)
\* update_timeouts with the flags (ac, inh, audio) the handler has just set;
\* Popen either starts the process or raises
update_timeouts(ac, inh, audio) ==
    LET r == IF script = "idle-manager"
             THEN transition_safety(session, state_file)
             ELSE [session |-> session, file |-> state_file]
        rest == IF timeout_process # 0 THEN terminate(timeout_process, alive) ELSE alive
    IN  /\ session' = r.session
        /\ state_file' = r.file
        /\ before' = IF script = "idle-manager" /\ exists(state_file) THEN <<>> ELSE before
        /\ spawned' = spawned + 1
        /\ IF script = "legacy idle-manager" /\ inh
           THEN /\ timeout_process' = 0
                /\ alive' = rest
                /\ argv' = <<>>
           ELSE \E started \in BOOLEAN :
                   IF started
                   THEN /\ timeout_process' = spawned + 1
                        /\ alive' = rest \cup {spawned + 1}
                        /\ argv' = IF script = "idle-manager"
                                   THEN shell_argv(swayidle_args(ac, inh, audio))
                                   ELSE legacy_cmd_list(ac, audio)
                   ELSE /\ timeout_process' = IF script = "idle-manager" THEN timeout_process ELSE 0
                        /\ alive' = rest
                        /\ argv' = IF script = "idle-manager" THEN argv ELSE <<>>

\* update_timeouts finds the state file
found_idle == script = "idle-manager" /\ exists(state_file)

\* what a handler leaves alone when it does not call update_timeouts
no_update == UNCHANGED <<on_ac, audio_playing, inhibited, timeout_process, alive, spawned,
                         argv, state_file, session, before>>

check_audio ==
    /\ script \in IdleManagers /\ spawned < MaxSpawns
    /\ \E is_playing \in BOOLEAN :
          /\ handler' = [name |-> "check_audio", observed |-> is_playing, matched |-> TRUE,
                             restored |-> differs(is_playing, audio_playing) /\ found_idle]
          /\ IF differs(is_playing, audio_playing)
             THEN /\ audio_playing' = is_playing
                  /\ update_timeouts(on_ac, inhibited, is_playing)
                  /\ UNCHANGED <<on_ac, inhibited>>
             ELSE no_update
    /\ UNCHANGED <<hardware_vars, brightness_vars>>

check_inhibitor ==
    /\ script \in IdleManagers /\ spawned < MaxSpawns
    /\ \E is_inhibited \in BOOLEAN :
          /\ handler' = [name |-> "check_inhibitor", observed |-> is_inhibited, matched |-> TRUE,
                             restored |-> differs(is_inhibited, inhibited) /\ found_idle]
          /\ IF differs(is_inhibited, inhibited)
             THEN /\ inhibited' = is_inhibited
                  /\ update_timeouts(on_ac, is_inhibited, audio_playing)
                  /\ UNCHANGED <<on_ac, audio_playing>>
             ELSE no_update
    /\ UNCHANGED <<hardware_vars, brightness_vars>>

\* the PropertiesChanged signal of UPower: (interface, changed properties)
on_ac_changed ==
    /\ script = "idle-manager" /\ spawned < MaxSpawns
    /\ \E target_iface \in {"org.freedesktop.UPower", "org.freedesktop.UPower.Device"},
          has_key \in BOOLEAN, on_battery \in BOOLEAN :
          LET matched == target_iface = "org.freedesktop.UPower" /\ has_key
              is_ac == ~on_battery
          IN  /\ handler' = [name |-> "on_ac_changed", observed |-> matched /\ is_ac,
                             matched |-> matched,
                             restored |-> matched /\ differs(is_ac, on_ac) /\ found_idle]
              /\ IF matched /\ differs(is_ac, on_ac)
                 THEN /\ on_ac' = is_ac
                      /\ update_timeouts(is_ac, inhibited, audio_playing)
                      /\ UNCHANGED <<audio_playing, inhibited>>
                 ELSE no_update
    /\ UNCHANGED <<hardware_vars, brightness_vars>>

\* the poll of /sys/class/power_supply/ADP1/online of the legacy manager
check_ac_power ==
    /\ script = "legacy idle-manager" /\ spawned < MaxSpawns
    /\ \E path_exists \in BOOLEAN, online \in BOOLEAN :
          /\ handler' = [name |-> "check_ac_power", observed |-> path_exists /\ online,
                         matched |-> path_exists, restored |-> FALSE]
          /\ IF path_exists /\ differs(online, on_ac)
             THEN /\ on_ac' = online
                  /\ update_timeouts(online, inhibited, audio_playing)
                  /\ UNCHANGED <<audio_playing, inhibited>>
             ELSE no_update
    /\ UNCHANGED <<hardware_vars, brightness_vars>>

\* a call of enter_idle or dim_screen, with its result r
idle_call(r) ==
    /\ session' = r.session
    /\ state_file' = r.file
    /\ before' = IF before = <<>> THEN session ELSE before

\* a call of exit_idle
active_call ==
    /\ session' = exit_idle(session, state_file).session
    /\ state_file' = exit_idle(session, state_file).file
    /\ before' = <<>>

\* PrepareForSleep of login1
on_sleep ==
    /\ script = "idle-manager"
    /\ \E going_sleep \in BOOLEAN :
          /\ handler' = other_handler
          /\ IF going_sleep
             THEN idle_call(enter_idle(session, state_file))
             ELSE active_call
    /\ UNCHANGED <<on_ac, audio_playing, inhibited, timeout_process, alive, spawned, argv>>
    /\ UNCHANGED <<hardware_vars, brightness_vars>>

\* Unlock of the login1 session
on_unlock ==
    /\ script = "idle-manager"
    /\ handler' = other_handler
    /\ active_call
    /\ UNCHANGED <<on_ac, audio_playing, inhibited, timeout_process, alive, spawned, argv>>
    /\ UNCHANGED <<hardware_vars, brightness_vars>>

\* `idle-manager.py idle | active | dim`, the desktop user found
run_action ==
    /\ script = "idle-manager"
    /\ \E action \in {"idle", "active", "dim"} :
          /\ handler' = other_handler
          /\ CASE action = "idle" -> idle_call(enter_idle(session, state_file))
               [] action = "dim" -> idle_call(dim_screen(session, state_file))
               [] action = "active" -> active_call
    /\ UNCHANGED <<on_ac, audio_playing, inhibited, timeout_process, alive, spawned, argv>>
    /\ UNCHANGED <<hardware_vars, brightness_vars>>

\* start_daemon up to its first check: flags as initialised, no state file
IdleInit ==
    /\ \E name \in IdleManagers : other_program(name)
    /\ no_brightness_tool
    /\ on_ac \in IF script = "idle-manager" THEN BOOLEAN ELSE {FALSE}
    /\ audio_playing = FALSE
    /\ inhibited = FALSE
    /\ timeout_process = 0
    /\ alive = {}
    /\ spawned = 0
    /\ argv = <<>>
    /\ state_file = state_absent
    /\ session \in Sessions
    /\ before = <<>>
    /\ handler = no_handler

IdleNext ==
    \/ on_unlock
    \/ on_sleep
    \/ run_action
    \/ check_audio
    \/ check_inhibitor
    \/ on_ac_changed
    \/ check_ac_power

IdleSpec == IdleInit /\ [][IdleNext]_vars


(***************************************************************************)
(* Vocabulary of the properties.                                           *)
(***************************************************************************)
IsStageCall(c) == c[3] = "stage"
IsRetryCall(c) == c[3] = "retry"
IsUnloadCall(c) == c[1] \in {"unload", "stop"}
IsLoadCall(c) == c[1] \in {"load", "start"}

\* the calls of the two main stages, and those of the narrow retries
stage_calls == SelectSeq(calls, IsStageCall)
retry_calls == SelectSeq(calls, IsRetryCall)

IsPrefix(a, b) == Len(a) <= Len(b) /\ SubSeq(b, 1, Len(a)) = a

\* number of resources (modules and services) the running script registers
n_resources == IF script = "0.2.5" THEN 2 ELSE 4

\* the load stage of the current trigger has run to its end
load_stage_done ==
    IF script = "0.2.5"
    THEN pc \in {"init_wait", "verify", "verify_sleep"} \/ seen # <<>>
    ELSE pc = "legacy_read" /\ calls # <<>>

\* _reset_sequence has returned a value for the current trigger
returned == result \in {"True", "False"}

all_true(bs) == \A i \in 1..Len(bs) : bs[i] = TRUE

\* every step of both main stages returned True and the first verification
\* pass found both devices
smooth_recovery ==
    /\ result = "True"
    /\ Len(rets) = 4 /\ all_true(rets)
    /\ seen = << <<TRUE, TRUE>> >>

(***************************************************************************)
(* C1  Cooldown gate.  Whenever _reset_sequence is entered (from the       *)
(* watcher or from a manual exec) less than cd_sec seconds after lrt, it   *)
(* returns False at once: no module operation is called, no notification   *)
(* is sent and lrt keeps its value.                                        *)
(***************************************************************************)
C1_CooldownGate ==
    [][(pc = "reset" /\ lrt_age < cd_sec)
         => /\ result' = "False"
            /\ pc' = after_reset
            /\ calls' = calls /\ calls = <<>>
            /\ notes' = notes
            /\ lrt_age' = lrt_age]_vars

\* a trigger of the watcher has just been refused inside the window
C1_Witness ==
    /\ mode = "daemon" /\ pc = "read"
    /\ result = "False" /\ n_age = 0
    /\ lrt_age = cd_sec - 1
    /\ calls = <<>>

(***************************************************************************)
(* C2  A line that matches no signature.  When the watcher (either script) *)
(* reads a line that matches none of its patterns, it stays in its read    *)
(* loop: the recovery pipeline is not entered, no module command and no    *)
(* notification is issued, and the cooldown timestamp keeps its value (its *)
(* age only grows by the time waited for the line).                        *)
(***************************************************************************)
\* the lines of Lines that match no pattern of the running script, read off
\* the regular expressions
NoSignature ==
    IF script = "0.2.5"
    THEN { <<"link becomes ready">>, <<"(5)", "error", "CMD_TRIGGER_SCAN">> }
    ELSE { <<"link becomes ready">>, <<"(5)", "error", "CMD_TRIGGER_SCAN">>,
           <<"failed with error -110">> }

C2_NoMatchNoRecovery ==
    [][(pc \in {"read", "legacy_read"} /\ line' \in NoSignature)
         => /\ pc' = pc
            /\ calls' = <<>>
            /\ notes' = <<>>
            /\ result' = "none"
            /\ \E gap \in Gaps : lrt_age' = aged(lrt_age, gap, Horizon)]_vars

\* a non-matching line has been read while a cooldown timestamp is set
C2_Witness ==
    /\ pc = "read"
    /\ line = <<"(5)", "error", "CMD_TRIGGER_SCAN">>
    /\ lrt_age < cd_sec
    /\ calls = <<>> /\ notes = <<>>

step_successor == <<"unload_bt", "settle", "load_wifi", "init_wait">>

C4_BestEffort ==
    \A i \in 1..Len(rets) :
        (rets[i] = FALSE /\ i \notin {n_resources, 2 * n_resources})
            => \/ Len(stage_calls) > i
               \/ /\ Len(stage_calls) = i
                  /\ pc = IF script = "0.2.5" THEN step_successor[i]
                          ELSE IF i < n_resources THEN "legacy_unload" ELSE "legacy_load"

\* unloading the Wi-Fi module failed three times, the Bluetooth module was
\* then unloaded with a command
C4_Witness ==
    /\ script = "0.2.5" /\ pc = "settle"
    /\ rets = <<FALSE, TRUE>>
    /\ WIFI \in loaded /\ BT \notin loaded
    /\ n_age = max_attempt * backoff + delay

(***************************************************************************)
(* C5  _verify_connectivity returns True only on a pass that observed both *)
(* the wireless interface and hci0.                                        *)
(***************************************************************************)
C5_VerifiedOnlyIfBothPresent ==
    result = "True" => (seen # <<>> /\ seen[Len(seen)] = <<TRUE, TRUE>>)

\* verification succeeded on a later pass, after a pass with a device missing
C5_Witness ==
    /\ result = "True"
    /\ Len(seen) = 2 /\ seen[1] = <<TRUE, FALSE>> /\ seen[2] = <<TRUE, TRUE>>

(***************************************************************************)
(* C6  Number of passes before failure.  As claimed: when verification     *)
(* declares failure it has made exactly verify_retries (3) presence        *)
(* checks.  As amended: it has made exactly verify_retries + 1 (4) checks, *)
(* the first pass and one per retry, each finding a device missing.        *)
(***************************************************************************)
\* verification has returned False for the current trigger
verification_failed == result = "False" /\ seen # <<>>

C6_Claimed_ExactlyRetriesPasses ==
    verification_failed => Len(seen) = verify_retries

C6_ExactlyRetriesPlusOnePasses ==
    verification_failed
        => /\ Len(seen) = verify_retries + 1
           /\ \A i \in 1..Len(seen) : seen[i] # <<TRUE, TRUE>>
           /\ "failed" = notes[Len(notes)]

C6_Witness ==
    /\ verification_failed
    /\ seen = << <<FALSE, TRUE>>, <<FALSE, TRUE>>, <<FALSE, TRUE>>, <<FALSE, TRUE>> >>

(***************************************************************************)
(* C7  Narrow retry.  The module operations called by verification are,    *)
(* pass by pass, an unload and a load of brcmfmac_wcc if and only if the   *)
(* pass found Wi-Fi missing, then an unload and a load of hci_bcm4377 if   *)
(* and only if it found Bluetooth missing, for the passes that had a retry *)
(* left; nothing is re-issued for a device found present, and the two main *)
(* stages are never run again.                                             *)
(***************************************************************************)
\* what one pass re-issues
narrow(obs) ==
    (IF ~obs[1] THEN << <<"unload", "brcmfmac_wcc", "retry">>,
                        <<"load", "brcmfmac_wcc", "retry">> >> ELSE <<>>)
    \o (IF ~obs[2] THEN << <<"unload", "hci_bcm4377", "retry">>,
                           <<"load", "hci_bcm4377", "retry">> >> ELSE <<>>)

RECURSIVE narrow_all(_)
narrow_all(obss) ==
    IF obss = <<>> THEN <<>> ELSE narrow(Head(obss)) \o narrow_all(Tail(obss))

C7_NarrowRetry ==
    /\ IsPrefix(retry_calls, narrow_all(seen))
    /\ pc \in {"verify", "verify_sleep"} => retry_calls = narrow_all(seen)
    /\ (returned /\ seen # <<>>)
          => retry_calls = narrow_all(SubSeq(seen, 1, Len(seen) - 1))
    /\ Len(stage_calls) <= 2 * n_resources

\* a pass found only Bluetooth missing and only hci_bcm4377 was reloaded
C7_Witness ==
    /\ pc = "verify_sleep"
    /\ seen = << <<TRUE, FALSE>> >>
    /\ retry_calls = << <<"unload", BT, "retry">>, <<"load", BT, "retry">> >>

(***************************************************************************)
(* C8  Scenario.  Wi-Fi absent on the first two passes and present on the  *)
(* third, Bluetooth present throughout: when verification returns, it      *)
(* returns True and has issued exactly two narrow unload+load cycles, both *)
(* of brcmfmac_wcc.                                                        *)
(***************************************************************************)
C8_Scenario == << <<FALSE, TRUE>>, <<FALSE, TRUE>>, <<TRUE, TRUE>> >>

C8_TwoNarrowCyclesThenSuccess ==
    (seen = C8_Scenario /\ returned)
        => /\ result = "True"
           /\ retry_calls = << <<"unload", WIFI, "retry">>, <<"load", WIFI, "retry">>,
                               <<"unload", WIFI, "retry">>, <<"load", WIFI, "retry">> >>
           /\ notes[Len(notes)] = "restored"

C8_Witness == seen = C8_Scenario /\ result = "True"

(***************************************************************************)
(* C9  Cooldown timestamp after a smooth recovery.  As claimed: lrt equals *)
(* the trigger time n (the ages of lrt and of n are equal).  As amended:   *)
(* lrt is the time at which verification returned (its age is 0), which is *)
(* at least the two settle sleeps (10 s) later than the trigger time n.    *)
(***************************************************************************)
C9_Claimed_TimestampIsTriggerTime ==
    smooth_recovery => lrt_age = n_age

C9_TimestampIsCompletionTime ==
    smooth_recovery => (lrt_age = 0 /\ n_age >= 2 * settle)

C9_Witness == smooth_recovery /\ mode = "daemon" /\ lrt_age = 0 /\ n_age > 2 * settle

(***************************************************************************)
(* C10  After a smooth recovery exactly one "Connectivity restored"        *)
(* notification has been sent, no failure notification, and the module     *)
(* operations called are the four of the main stages and nothing else.     *)
(***************************************************************************)
count(seq, x) == Cardinality({i \in 1..Len(seq) : seq[i] = x})

C10_OneSuccessNoExtraCycle ==
    smooth_recovery
        => /\ count(notes, "restored") = 1
           /\ count(notes, "failed") = 0
           /\ retry_calls = <<>>
           /\ calls = << <<"unload", WIFI, "stage">>, <<"unload", BT, "stage">>,
                         <<"load", BT, "stage">>, <<"load", WIFI, "stage">> >>

C10_Witness ==
    /\ smooth_recovery
    /\ notes = <<"hang", "started", "restored">>
    /\ line = <<"SET WPA_AUTH FAILED">>

(***************************************************************************)
(* C11  Idempotence of the manual recovery.  When `exec` is run a second   *)
(* time in immediate succession (0 s after the previous run ended), the    *)
(* second run is refused by the cooldown gate: it sends no 'Reset sequence *)
(* started' notification and calls no module operation.  Stated for the    *)
(* outcome of the first run that favours the claim most: it completed a    *)
(* recovery with success, the only outcome after which lrt is set.         *)
(***************************************************************************)
sent(kind) == \E i \in 1..Len(notes) : notes[i] = kind

C11_SecondExecRefused ==
    (mode = "exec" /\ invocation > 1 /\ prev_result = "True")
        => (~sent("started") /\ calls = <<>>)

(***************************************************************************)
(* C12  When the cooldown timestamp is updated.  As claimed: whenever a    *)
(* granted recovery has completed, with success or with failure, the       *)
(* timestamp is the time of completion (its age is 0).  As amended: the    *)
(* timestamp is updated exactly when a granted recovery of script 0.2.5    *)
(* completes with success (verification returned True) and when a granted  *)
(* recovery of the legacy script completes (its last load step has run);   *)
(* no other step of either script brings the timestamp forward, so a       *)
(* recovery of 0.2.5 that ends in failure leaves it as it was.             *)
(***************************************************************************)
\* a granted recovery has completed and its outcome is still at hand
recovery_completed ==
    IF script = "0.2.5"
    THEN returned /\ sent("started")
    ELSE pc = "legacy_read" /\ Len(calls) = Len(unload_steps) + Len(load_steps)

C12_Claimed_UpdatedOnEveryCompletion ==
    recovery_completed => lrt_age = 0

\* the step completes a recovery in the way that sets the timestamp
completes_with_update ==
    IF script = "0.2.5"
    THEN pc = "verify" /\ result' = "True"
    ELSE pc = "legacy_load" /\ pc' = "legacy_read"

C12_UpdatedOnSuccessOnly ==
    [][/\ completes_with_update => lrt_age' = 0
       /\ lrt_age' < lrt_age => completes_with_update]_vars

\* verification has failed in the daemon and the timestamp is still older
\* than the window
C12_Witness ==
    /\ mode = "daemon" /\ script = "0.2.5"
    /\ result = "False" /\ sent("failed")
    /\ lrt_age >= cd_sec

(***************************************************************************)
(* C13  Distance between the starts of two granted recoveries of the       *)
(* watcher.  As claimed: whenever a granted recovery starts, the previous  *)
(* granted recovery started at least the cooldown window earlier, whatever *)
(* its outcome.  As amended: that holds in the legacy script for every     *)
(* outcome (window cd_time), and in script 0.2.5 (window cd_sec) when the  *)
(* previous granted recovery completed with success; after a recovery of   *)
(* 0.2.5 that failed, the next matching line starts a recovery at once.    *)
(***************************************************************************)
window == IF script = "0.2.5" THEN cd_sec ELSE cd_time

\* the watcher is about to run the first step of the unload stage
recovery_starting ==
    /\ mode = "daemon"
    /\ pc = (IF script = "0.2.5" THEN "unload_wifi" ELSE "legacy_unload")
    /\ calls = <<>>

\* lrt was assigned after the last granted recovery began: that recovery
\* completed with success
last_recovery_succeeded == lrt_age < grant_age

C13_Claimed_StartsWindowApart ==
    recovery_starting => grant_age >= window

C13_StartsWindowApartAfterSuccess ==
    recovery_starting
        => IF script = "0.2.5"
           THEN last_recovery_succeeded => grant_age >= cd_sec
           ELSE grant_age >= cd_time

\* a recovery of 0.2.5 starts exactly cd_sec seconds after the previous one
\* completed with success
C13_Witness ==
    /\ recovery_starting /\ script = "0.2.5"
    /\ lrt_age = cd_sec
    /\ last_recovery_succeeded

(***************************************************************************)
(* C14  Single flight with drop.  A signature line that was written to the *)
(* log stream while a recovery was running never starts a recovery of its  *)
(* own once that recovery has finished (one thread of control: at most one *)
(* sequence is in flight by construction).                                 *)
(***************************************************************************)
C14_QueuedLineDropped ==
    ~(queued /\ recovery_starting)

(***************************************************************************)
(* C15  Errors of one trigger's pipeline.  When an exception has left      *)
(* _reset_sequence in the watcher (raised by a notification, by a narrow   *)
(* retry or by the presence check), the watcher is back in its loop,       *)
(* reading the next line.                                                  *)
(***************************************************************************)
C15_ErrorKeepsWatching ==
    (mode = "daemon" /\ result = "raised") => pc = "read"

C17_StopsOnlyOnPermissionError ==
    /\ stream_error = "PermissionError" => pc = "exit"
    /\ stream_error \in ReadErrors => pc \in {"read", "legacy_read"}

(***************************************************************************)
(* C18  Desktop user not resolved.  A recovery that the gate grants goes   *)
(* on to its unload stage whether or not the 'Reset sequence started'      *)
(* notification could be sent as the desktop user: when the user cannot be *)
(* resolved the notification is skipped and no exception leaves            *)
(* _reset_sequence.                                                        *)
(***************************************************************************)
C18_RecoveryRunsWithoutUser ==
    [][(pc = "reset" /\ lrt_age >= cd_sec)
         => (pc' = "unload_wifi" /\ result' # "raised")]_vars

(***************************************************************************)
(* C19: retry ceiling of the module and service steps.                     *)
(***************************************************************************)
\* a blocking service operation has returned False
blocking_service_failed == script \in Libraries /\ svc.block /\ svc.ret = "False"

\* a pass of the loop of unload_module / load_module is about to run
module_pass == pc \in UnloadSites \cup LoadSites /\ attempt >= 1

\* this step is a module step returning `val` to a stage
module_returns(val) == module_pass /\ pc \in StageSites /\ rets' = Append(rets, val)

\* this step is a pass whose modprobe has put the module into the table
load_succeeds == module_pass /\ pc \in LoadSites /\ site_module(pc) \in loaded' \ loaded

\* C19 (as claimed): every blocking service start/stop step that returns False
\* has issued its command exactly 3 times and has seen exactly 3 failed attempts.
C19_Claimed_FalseOnlyAfterThreeFailures ==
    blocking_service_failed => (svc.issued = max_attempt /\ svc.failed = max_attempt)

\* C19 (amended): every module load/unload step and every blocking service
\* start/stop step issues its command at most 3 times and stops at the first
\* attempt that succeeds; a module step returns False only after exactly 3
\* failed attempts, and a blocking service step returns False only after
\* exactly 3 failed attempts or when an exception was raised inside it.
C19_RetryCeiling ==
    /\ [](/\ attempt \in 0..max_attempt
          /\ svc.issued <= max_attempt
          /\ (script \in Libraries /\ svc.block /\ svc.ret = "True")
                => svc.failed = svc.issued - 1
          /\ (script \in Libraries /\ svc.block /\ svc.ret = "none")
                => svc.failed = svc.issued
          /\ blocking_service_failed =>
                \/ svc.issued = max_attempt /\ svc.failed = max_attempt
                \/ svc.error)
    /\ [][/\ module_returns(FALSE) => attempt = max_attempt
          /\ module_pass => attempt' \in {0, attempt + 1}
          /\ load_succeeds => attempt' = 0
          /\ (module_pass /\ attempt' = attempt + 1) => (pc' = pc /\ rets' = rets)]_vars

\* a blocking service step has given up after three commands none of which
\* was confirmed
C19_Witness ==
    /\ blocking_service_failed
    /\ ~svc.error
    /\ svc.issued = max_attempt
    /\ svc.failed = max_attempt

(***************************************************************************)
(* C20: the result of the unload stage and of the load stage.              *)
(***************************************************************************)
\* _unload_all has returned True (the settling sleep is next), or _load_all
\* has returned True (the initialization sleep is next)
stage_returned_true == script = "0.2.5" /\ pc \in {"settle", "init_wait"}

\* C20: the unload stage (_unload_all) and the load stage (_load_all) return
\* True only if every step of the stage succeeded; a stage in which a module
\* step failed all its retries returns False.
C20_StageTrueIffAllStepsSucceeded == stage_returned_true => all_true(rets)

(***************************************************************************)
(* C21  Unload is followed by load.  When a recovery of 0.2.5 that started *)
(* its unload stage is over (_reset_sequence has returned or raised), a     *)
(* load step has been attempted in it, whatever the unload steps did.      *)
(***************************************************************************)
load_attempted == \E i \in 1..Len(calls) : IsLoadCall(calls[i])

C21_UnloadThenLoad ==
    (script = "0.2.5" /\ result \in {"True", "False", "raised"} /\ calls # <<>>)
        => load_attempted

(***************************************************************************)
(* C22  Serialization and completion.  A step of the watcher of 0.2.5      *)
(* taken inside _reset_sequence stays inside it or returns to the read     *)
(* loop: a recovery in progress runs on to its end, no line is read        *)
(* meanwhile, and the watcher then reads lines again.                      *)
(***************************************************************************)
in_recovery ==
    script = "0.2.5" /\ mode = "daemon" /\ pc \notin {"main", "read", "exit", "crashed"}

C22_RecoveryEndsInReadLoop ==
    [][in_recovery => (in_recovery' \/ pc' = "read")]_vars

(***************************************************************************)
(* C23  The final notification of verification.  When _verify_connectivity *)
(* has returned True, 'Connectivity restored' was sent once and no failure *)
(* was notified or logged; when it has returned False after its last pass, *)
(* 'Recovery failed' was sent once, no success was notified, and the       *)
(* failure log names exactly the resources the last pass found missing.    *)
(***************************************************************************)
verification_succeeded == result = "True" /\ seen # <<>>

names(resource) == \E i \in 1..Len(failure_log) : failure_log[i] = resource

C23_OneFinalNotification ==
    /\ verification_succeeded =>
          /\ count(notes, "restored") = 1
          /\ count(notes, "failed") = 0
          /\ failure_log = <<>>
    /\ verification_failed =>
          /\ count(notes, "failed") = 1
          /\ count(notes, "restored") = 0
          /\ names("wifi") <=> ~seen[Len(seen)][1]
          /\ names("bt") <=> ~seen[Len(seen)][2]
          /\ Len(failure_log) = Cardinality({r \in {"wifi", "bt"} : names(r)})

\* verification has given up with Bluetooth present and Wi-Fi missing on
\* the last pass
C23_Witness ==
    /\ verification_failed
    /\ seen[Len(seen)] = <<FALSE, TRUE>>
    /\ failure_log = <<"wifi">>
    /\ count(notes, "failed") = 1

(***************************************************************************)
(* C24  Verification follows a successful load stage.  A recovery of       *)
(* 0.2.5 that has made a verification pass was granted by the gate (its    *)
(* start notification was sent) and all four steps of its unload and load  *)
(* stages returned to their stage, in order, before the first pass.        *)
(***************************************************************************)
verification_entered == script = "0.2.5" /\ (pc = "verify" \/ seen # <<>>)

C24_VerifyOnlyAfterLoadStage ==
    verification_entered =>
        /\ sent("started")
        /\ Len(rets) = Len(stage_calls)
        /\ Len(stage_calls) = 4
        /\ IsUnloadCall(stage_calls[1]) /\ IsUnloadCall(stage_calls[2])
        /\ IsLoadCall(stage_calls[3]) /\ IsLoadCall(stage_calls[4])

\* the first pass of a verification is about to run
C24_Witness ==
    /\ script = "0.2.5" /\ pc = "verify" /\ seen = <<>>
    /\ Len(rets) = 4
    /\ sent("started")

(***************************************************************************)
(* C25  One recovery per line.  While the line last read is handled, the   *)
(* recovery pipeline has been invoked at most once for it, however many    *)
(* signatures the line matches: one 'Hardware hang detected' notification, *)
(* one start of the reset sequence, one unload step per resource.          *)
(***************************************************************************)
n_matching(compiled, l) == Cardinality({i \in 1..Len(compiled) : search(compiled[i], l)})

matches_several ==
    /\ mode = "daemon"
    /\ line # <<>>
    /\ n_matching(IF script = "0.2.5" THEN p_list ELSE patterns, line) > 1

C25_OneRecoveryPerLine ==
    (mode = "daemon" /\ line # <<>>) =>
        /\ count(notes, "hang") <= 1
        /\ count(notes, "started") <= 1
        /\ Len(SelectSeq(stage_calls, IsUnloadCall)) <= n_resources
        /\ ((script = "0.2.5" /\ calls # <<>>) => count(notes, "hang") = 1)

\* a line that matches two signatures has started one recovery
C25_Witness ==
    /\ matches_several
    /\ script = "0.2.5"
    /\ notes = <<"hang", "started">>
    /\ pc = "unload_wifi"

(***************************************************************************)
(* C26  Success of a module unload.  An unload step that returns True      *)
(* after issuing a command does so on the first attempt whose modprobe     *)
(* exited with 0 and after which the module is not in the module table; an *)
(* attempt with exit status 0 and the module still listed is a failed one, *)
(* followed by the next attempt.  tries holds (status, still listed) of    *)
(* the attempts of suspendfix's unload_module; for t2.unload_module the    *)
(* table after the attempt is compared with what the step returns.         *)
(***************************************************************************)
unloading == script = "suspendfix" /\ calls # <<>> /\ this_step[1] = "unload"

unload_confirmed(try) == try = <<0, FALSE>>

C26_UnloadNeedsStatusAndTable ==
    /\ [](unloading =>
            /\ \A i \in 1..(Len(tries.seen) - 1) : ~unload_confirmed(tries.seen[i])
            /\ (tries.ret = "True" /\ tries.seen # <<>>)
                  => unload_confirmed(tries.seen[Len(tries.seen)])
            /\ (tries.ret \in {"none", "False"} /\ tries.seen # <<>>)
                  => ~unload_confirmed(tries.seen[Len(tries.seen)])
            /\ (tries.ret = "none" /\ attempt >= 1) => attempt = Len(tries.seen) + 1
            /\ tries.ret = "True" => table_name(this_step[2]) \notin loaded)
    /\ [][(module_pass /\ pc \in UnloadSites /\ site_module(pc) \in loaded')
             => /\ ~module_returns(TRUE)
                /\ (attempt < max_attempt /\ pc' = pc) => attempt' = attempt + 1]_vars

\* an attempt with status 0 left the module listed, the next attempt removed it
C26_Witness ==
    /\ unloading
    /\ tries.seen = << <<0, TRUE>>, <<0, FALSE>> >>
    /\ tries.ret = "True"

(***************************************************************************)
(* C27  The action of start_service.  The action is 'restart' when the     *)
(* is-active query made before the loop returned 0 and 'start' otherwise,  *)
(* and no pass of the loop changes it; a blocking start_service has        *)
(* returned True exactly when one of its at most 3 is-active checks        *)
(* returned 0, which then is the last check it made.                       *)
(***************************************************************************)
starting == mode = "call" /\ svc.op = "start"

active_seen == \E i \in 1..Len(svc.checks) : svc.checks[i] = 0

C27_StartActionAndResult ==
    /\ [](starting =>
            /\ svc.action # "none"
                  => svc.action = IF svc.query = 0 THEN "restart" ELSE "start"
            /\ Len(svc.checks) <= max_attempt
            /\ svc.block =>
                  /\ svc.ret = "True" <=> active_seen
                  /\ active_seen => svc.checks[Len(svc.checks)] = 0
                  /\ \A i \in 1..(Len(svc.checks) - 1) : svc.checks[i] # 0)
    /\ [][(starting /\ pc = "service_loop")
             => (svc'.action = svc.action /\ svc'.query = svc.query)]_vars

\* a blocking restart confirmed by the check after its second command
C27_Witness ==
    /\ starting /\ svc.block
    /\ svc.query = 0 /\ svc.action = "restart"
    /\ svc.checks = <<3, 0>>
    /\ svc.ret = "True"

(***************************************************************************)
(* C28  Blocking and non-blocking service operations.                      *)
(***************************************************************************)
service_over == mode = "call" /\ svc.ret # "none"

\* suspendfix was started with no desktop user and the call is user-scoped
skipped_for_no_user == script = "suspendfix" /\ svc.as_user /\ ~svc.user

\* C28 (as claimed): a non-blocking service operation that is over has issued
\* exactly one start/stop command, made no is-active check after it, and
\* returned True.
C28_Claimed_ExactlyOneCommand ==
    (service_over /\ ~svc.block) =>
        (svc.issued = 1 /\ svc.checks = <<>> /\ svc.ret = "True")

\* C28 (amended): a non-blocking operation makes no is-active check after its
\* command and issues at most one command; unless an exception was raised in
\* it, it returns True, having issued exactly one command, or none when
\* suspendfix skips the commands of a user-scoped call for want of a desktop
\* user; after an exception no command has completed and the operation has
\* returned False (t2, suspendfix) or raised (common.t2).  In a blocking
\* operation every pass of the loop that was not cut short by an exception
\* has made one is-active check after its command.
C28_BlockingDecidesConfirmation ==
    mode = "call" =>
        /\ ~svc.block =>
              /\ svc.checks = <<>>
              /\ svc.issued <= 1
              /\ svc.failed = 0
              /\ (service_over /\ ~svc.error) =>
                    /\ svc.ret = "True"
                    /\ svc.issued = IF skipped_for_no_user THEN 0 ELSE 1
              /\ svc.error =>
                    /\ svc.issued = 0
                    /\ svc.ret = IF script = "common.t2" THEN "raised" ELSE "False"
        /\ svc.block =>
              /\ ~svc.error =>
                    Len(svc.checks) = IF service_over THEN svc.failed + (IF svc.ret = "True" THEN 1 ELSE 0)
                                      ELSE IF pc = "service_loop" THEN attempt - 1 ELSE 0
              /\ skipped_for_no_user => svc.issued = 0
              /\ (~skipped_for_no_user /\ ~svc.error) => svc.issued = Len(svc.checks)
              /\ (~skipped_for_no_user /\ svc.error) => svc.issued \in {Len(svc.checks), Len(svc.checks) + 1}

\* a non-blocking stop has returned True after its one command
C28_Witness ==
    /\ service_over /\ ~svc.block /\ svc.op = "stop"
    /\ svc.issued = 1
    /\ svc.ret = "True"

(***************************************************************************)
(* C29  Module order of suspendfix.  When `reload` has run both sequences, *)
(* the modules were unloaded in the exact reverse of the order in which    *)
(* they were then loaded, and every unload step came before the first load *)
(* step.                                                                   *)
(***************************************************************************)
IsModuleUnload(c) == c[1] = "unload"
IsModuleLoad(c) == c[1] = "load"

module_names(cs) == [i \in 1..Len(cs) |-> cs[i][2]]

reload_done ==
    script = "suspendfix" /\ mode = "reload" /\ Len(calls) = Len(program("reload"))

C29_UnloadReversesLoad ==
    reload_done =>
        /\ module_names(SelectSeq(calls, IsModuleUnload))
              = reversed(module_names(SelectSeq(calls, IsModuleLoad)))
        /\ \A i, j \in 1..Len(calls) :
              (IsModuleUnload(calls[i]) /\ IsModuleLoad(calls[j])) => i < j

(***************************************************************************)
(* C30  The first trigger of a process.  The cooldown timestamp is the     *)
(* epoch until a recovery sets it, so the first time a process comes to    *)
(* its cooldown gate (first matching line, or the manual exec) the gate    *)
(* does not refuse: _reset_sequence goes on to its start notification, the *)
(* legacy watcher to its unload stage.                                     *)
(***************************************************************************)
first_trigger == script = "0.2.5" /\ pc = "reset" /\ ~gated

legacy_first_trigger ==
    script = "legacy" /\ pc = "legacy_read" /\ ~gated /\ gated'

C30_FirstTriggerGranted ==
    /\ [](first_trigger => lrt_age >= cd_sec)
    /\ [][/\ first_trigger => (pc' = "unload_wifi" \/ result' = "raised")
          /\ legacy_first_trigger => pc' = "legacy_unload"]_vars

\* the first matching line of the watcher of 0.2.5 has been granted
C30_Witness ==
    /\ script = "0.2.5" /\ mode = "daemon"
    /\ pc = "unload_wifi" /\ calls = <<>>
    /\ grant_age = Horizon /\ lrt_age = Horizon
    /\ notes = <<"hang", "started">>

(***************************************************************************)
(* C31  A refused trigger.  A call of _reset_sequence made less than       *)
(* cd_sec seconds after lrt returns False and changes nothing else: no     *)
(* notification, no module operation, no verification pass, the module     *)
(* table and lrt as they were.  Within one process lrt never decreases:    *)
(* its age only grows with the time that passes, or drops to that of a     *)
(* recovery that has just ended.                                           *)
(***************************************************************************)
refused_trigger == script = "0.2.5" /\ pc = "reset" /\ lrt_age < cd_sec

C31_RefusalHasNoEffect ==
    [][/\ refused_trigger =>
             /\ result' = "False"
             /\ pc' = (IF mode = "daemon" THEN "read" ELSE "exit")
             /\ notes' = notes /\ ~sent("started")'
             /\ calls' = calls /\ calls = <<>>
             /\ seen' = seen /\ seen = <<>>
             /\ loaded' = loaded
             /\ lrt_age' = lrt_age
       /\ (script \in {"0.2.5", "legacy"} /\ invocation' = invocation) =>
             (lrt_age' = 0 \/ lrt_age' >= lrt_age)]_vars

\* the watcher has refused a matching line read inside the window
C31_Witness ==
    /\ script = "0.2.5" /\ mode = "daemon" /\ pc = "read"
    /\ result = "False" /\ calls = <<>> /\ notes = <<"hang">>
    /\ lrt_age < cd_sec

(***************************************************************************)
(* C32  Module operations are idempotent on the target state.  A           *)
(* load_module entered for a module the table lists, and an unload_module  *)
(* entered for a module the table does not list, returns True in that      *)
(* step: no pass of the modprobe loop is made and the table is unchanged.  *)
(* suspendfix looks the module up with "-" replaced by "_".                *)
(***************************************************************************)
listed_as(module_name) == IF module_name = "apple-bce" THEN "apple_bce" ELSE module_name

\* a module operation is being entered for a module already in its target state
in_target_state ==
    \/ /\ script = "0.2.5" /\ attempt = 0
       /\ \/ pc \in LoadSites /\ site_module(pc) \in loaded
          \/ pc \in UnloadSites /\ site_module(pc) \notin loaded
    \/ /\ script = "suspendfix" /\ pc = "sequence" /\ attempt = 0
       /\ \/ next_step[1] = "load" /\ listed_as(next_step[2]) \in loaded
          \/ next_step[1] = "unload" /\ listed_as(next_step[2]) \notin loaded

C32_TargetStateReturnsTrue ==
    [][in_target_state =>
          /\ attempt' = 0
          /\ loaded' = loaded
          /\ Len(calls') = Len(calls) + 1
          /\ script = "0.2.5" =>
                /\ pc' # pc
                /\ pc \in StageSites => rets' = Append(rets, TRUE)
                /\ pc \notin StageSites => rets' = rets
          /\ script = "suspendfix" => tries' = [seen |-> <<>>, ret |-> "True"]]_vars

\* suspendfix has loaded apple-bce over a table that listed it as apple_bce
C32_Witness ==
    /\ script = "suspendfix" /\ mode = "load"
    /\ Len(calls) >= 1 /\ calls[1][2] = "apple-bce"
    /\ "apple_bce" \in loaded
    /\ tries = [seen |-> <<>>, ret |-> "True"]
    /\ attempt = 0

(***************************************************************************)
(* C38  Brightness input handling (as claimed).  Once a brightness tool    *)
(* has been applied to an argument: validate_percentage has returned, with *)
(* -1 when the argument without its "%" is not a string of the digits 0-9  *)
(* or is a number above 100, and with the number otherwise; the level      *)
(* written for a percentage is floor(max_brightness * percentage / 100)    *)
(* and lies in 0..max_brightness; the touch-bar level is 0 for 0, 1 for    *)
(* 1..49 and 2 for 50..100.                                                *)
(***************************************************************************)
all_decimal(s) == s # <<>> /\ \A i \in 1..Len(s) : s[i] \in Decimal

C38_BrightnessInputHandling ==
    outcome.op # "none" =>
        LET clean == SelectSeq(input_str, LAMBDA c : c # "%")
            number == IF all_decimal(clean) THEN int(clean) ELSE 101
        IN  /\ ~outcome.validated.raised
            /\ number > 100 => outcome.validated.val = -1 /\ outcome.written = -1
            /\ number <= 100 =>
                  /\ outcome.validated.val = number
                  /\ outcome.op = "percentage" =>
                        /\ outcome.written * 100 <= max_value * number
                        /\ (outcome.written + 1) * 100 > max_value * number
                        /\ outcome.written \in 0..max_value
                  /\ outcome.op = "stepped" =>
                        outcome.written = (CASE number = 0 -> 0
                                             [] number \in 1..49 -> 1
                                             [] number \in 50..100 -> 2)

stored_flag(name) ==
    CASE name = "check_audio" -> audio_playing
      [] name = "check_inhibitor" -> inhibited
      [] name \in {"on_ac_changed", "check_ac_power"} -> on_ac

C36_EdgeTriggered ==
    [][/\ (/\ handler'.name \in {"check_audio", "check_inhibitor", "on_ac_changed", "check_ac_power"}
           /\ (~handler'.matched \/ handler'.observed = stored_flag(handler'.name)))
          => UNCHANGED <<on_ac, audio_playing, inhibited, timeout_process, alive, spawned, argv>>
       /\ spawned' # spawned
          => <<on_ac, audio_playing, inhibited>>' # <<on_ac, audio_playing, inhibited>>]_vars

\* the first check_audio of the daemon has found silence: no process started
C36_Witness ==
    /\ script = "idle-manager"
    /\ handler = [name |-> "check_audio", observed |-> FALSE, matched |-> TRUE, restored |-> FALSE]
    /\ audio_playing = FALSE /\ spawned = 0 /\ timeout_process = 0

(***************************************************************************)
(* C37  Transition safety.  When update_timeouts of 0.0.8 runs while the   *)
(* state file exists, the session is restored from it as exit_idle does    *)
(* and the file is removed in the same run, before Popen: no process is    *)
(* started by a run that leaves a state file behind.                       *)
(***************************************************************************)
C37_RestoredBeforeSpawn ==
    [][(script = "idle-manager" /\ spawned' # spawned) =>
          /\ state_file' = state_absent
          /\ state_file # state_absent =>
                /\ session' = exit_idle(session, state_file).session
                /\ before' = <<>>]_vars

\* a flag change has reached update_timeouts in idle mode and a process was started
C37_Witness ==
    /\ script = "idle-manager"
    /\ handler.restored
    /\ timeout_process = spawned /\ timeout_process \in alive
    /\ state_file = state_absent
    /\ session.power_profile = "balanced"

(***************************************************************************)
(* C34  Save/restore round trip (as claimed).  The exit_idle that follows  *)
(* one or more enter_idle / dim_screen calls puts the power profile, the   *)
(* keyboard backlight and the screen backlight back to what they were      *)
(* before the first of those calls and removes the state file; an          *)
(* exit_idle with no state file changes nothing.                           *)
(***************************************************************************)
C34_ExitRestoresSession ==
    [][/\ (before # <<>> /\ before' = <<>>) =>
             /\ session' = before
             /\ state_file' = state_absent
       /\ (before = <<>> /\ state_file = state_absent /\ spawned' = spawned) =>
             state_file' # state_absent \/ session' = session]_vars

(***************************************************************************)
(* C35  Timeout rules (as claimed).  The swayidle started by               *)
(* update_timeouts of 0.0.8 is given the "systemctl sleep" timeout exactly *)
(* when neither an inhibitor nor audio is detected, no timeout at all      *)
(* while inhibited, and the lock and before-sleep hooks in every state.    *)
(***************************************************************************)
has_argument(arg) == \E i \in 1..Len(argv) : argv[i] = arg

has_sleep_timeout ==
    \E i \in 1..(Len(argv) - 2) :
        /\ argv[i] = <<"timeout">>
        /\ argv[i + 1] = <<seconds_word(timeouts(on_ac).sleep)>>
        /\ argv[i + 2] = <<"systemctl", "sleep">>

C35_TimeoutRules ==
    (script = "idle-manager" /\ timeout_process \in alive) =>
        /\ has_sleep_timeout <=> (~inhibited /\ ~audio_playing)
        /\ inhibited => ~has_argument(<<"timeout">>)
        /\ has_argument(<<"lock">>)
        /\ has_argument(<<"before-sleep">>)

====
